---- MODULE Spec2Model ----
(***************************************************************************)
(* A model of the sinjoh asset decoders:                                   *)
(*   - the NARC container reader (sinjoh_nds/src/narc/reader.rs),           *)
(*   - the area-light text decoder (sinjoh_plat/src/area_light.rs),         *)
(*   - the map-prop animation-list decoder                                  *)
(*     (sinjoh_plat/src/map_prop_animation_list.rs),                        *)
(*   - the map-prop material-shapes decoder                                 *)
(*     (sinjoh_plat/src/map_prop_material_shapes.rs).                       *)
(* Each component has its own specification (SpecNarc, SpecLight, SpecAnim, *)
(* SpecMatShp); the variables of the other components stay at their idle    *)
(* values.                                                                  *)
(***************************************************************************)
EXTENDS Integers, Sequences, FiniteSets, TLC

VARIABLES
    \* ---- NARC reader ----
    file,             \* the bytes of the archive file on disk
    flags,            \* NarcReaderFlags given to read_from_file
    overflow_checks,  \* whether the build traps on integer overflow
    narc,             \* the NarcReader: state, parsed header, open error
    pos,              \* stream position of the reader's file handle
    iter,             \* the NarcReaderFilesIter borrowed from the reader
    ret,              \* what the last call returned
    yielded,          \* the items the live iterator has yielded so far
    first,            \* per member index, what the first get_file returned
    calls,            \* per member index, how often get_file was called (0, 1, many)
    \* ---- area-light decoder ----
    lines,              \* str.lines() of the text given to parse_string
    line_no,            \* index of the next line of the enumeration
    current_block_line, \* AreaLightBlockLine of the block machine
    current_block,      \* the block being filled
    blocks,             \* the blocks completed so far
    al_ret,             \* what parse_string returned
    area_light,         \* the AreaLight the loader holds after parsing
    fix_count           \* how often fix() was applied to it

\* The map-prop animation-list decoder (sinjoh_plat::map_prop_animation_list)
VARIABLES
    anim_bytes,         \* the bytes given to MapPropAnimationList::parse_bytes
    anim_ret            \* what it returned

\* The material-shapes decoder (sinjoh_plat::map_prop_material_shapes)
VARIABLES
    matshp_bytes,       \* the bytes given to MapPropMaterialShapes::parse_bytes
    matshp_ret          \* what it returned

narcVars == <<file, flags, overflow_checks, narc, pos, iter, ret, yielded, first, calls>>

lightVars == <<lines, line_no, current_block_line, current_block, blocks, al_ret,
               area_light, fix_count>>

animVars == <<anim_bytes, anim_ret>>

matshpVars == <<matshp_bytes, matshp_ret>>

\* The land-data decoder (sinjoh_plat::land_data, sinjoh_plat::bdhc)
VARIABLES
    land_bytes,         \* the bytes given to LandData::parse_bytes
    land_ret            \* what it returned

landVars == <<land_bytes, land_ret>>

\* The SQL export (pokeplat_utils/src/sql)
VARIABLES
    resources,          \* the PlatResources the loader decoded
    foreign_keys,       \* whether the SQLite of the build enforces foreign keys
    db_file,            \* the file at the export path, and the database in it
    export,             \* the run of export_plat_resources, and whether it is under way
    outcomes,           \* per populator the run has called, whether it returned Ok
    history,            \* per finished run, what it returned and the database it left
    tx                  \* the transactions the land-data populator opened and committed

sqlVars == <<resources, foreign_keys, db_file, export, outcomes, history, tx>>

\* The interactive SQL session (pokeplat_utils/src/sql/repl.rs)
VARIABLES
    stdin,              \* the queries still to be typed before the input ends
    session             \* where SqlRepl::repl stands, and what it did so far

replVars == <<stdin, session>>

\* The export command (pokeplat_utils/src/main.rs, plat_loader.rs)
VARIABLES
    paths,              \* the seven input files named by the NarcPaths
    loader              \* where PlatLoader::load_resources stands, and what it read

loadVars == <<paths, loader>>

\* the components added after the four decoders above
moreVars == <<landVars, sqlVars, replVars, loadVars>>

vars == <<narcVars, lightVars, animVars, matshpVars, moreVars>>

\* what the actions of one component leave alone
notNarc == <<lightVars, animVars, matshpVars, moreVars>>
notLight == <<narcVars, animVars, matshpVars, moreVars>>
notAnim == <<narcVars, lightVars, matshpVars, moreVars>>
notMatShp == <<narcVars, lightVars, animVars, moreVars>>
notLand == <<narcVars, lightVars, animVars, matshpVars, sqlVars, replVars, loadVars>>
notSql == <<narcVars, lightVars, animVars, matshpVars, landVars, replVars, loadVars>>
notRepl == <<narcVars, lightVars, animVars, matshpVars, landVars, sqlVars, loadVars>>
notLoad == <<narcVars, lightVars, animVars, matshpVars, landVars, replVars>>


(***************************************************************************)
(* Bounds of the model.                                                    *)
(***************************************************************************)
\* get_file is called with indices 0..MaxIndex
MaxIndex == 2
\* next() is called at most this many times after the iterator is exhausted
MaxExtraNext == 2

(***************************************************************************)
(* Fixed-width integers.  A u32 is kept as its two 16-bit halves, so that  *)
(* every 32-bit value is representable and arithmetic is exact mod 2^32.   *)
(***************************************************************************)
Pow16 == 65536

U32(n) == [hi |-> n \div Pow16, lo |-> n % Pow16]

U32Zero == [hi |-> 0, lo |-> 0]

\* `x as u64` / `x.into()`: the value of a u32 (used on values below 2^31)
as_u64(v) == v.hi * Pow16 + v.lo

\* a - b on u32, wrapping (the release build's subtraction)
wrapping_sub(a, b) ==
    [lo |-> (a.lo - b.lo) % Pow16,
     hi |-> (a.hi - b.hi - (IF a.lo < b.lo THEN 1 ELSE 0)) % Pow16]

u32_lt(a, b) == a.hi < b.hi \/ (a.hi = b.hi /\ a.lo < b.lo)

Max(a, b) == IF a >= b THEN a ELSE b
Min(a, b) == IF a <= b THEN a ELSE b

(***************************************************************************)
(* Reading from a byte sequence f at the 0-based position p.               *)
(***************************************************************************)
\* Read::read_exact of n bytes
read_exact(f, p, n) ==
    IF n = 0 \/ p + n <= Len(f)
    THEN [ok |-> TRUE, bytes |-> SubSeq(f, p + 1, p + n), pos |-> p + n]
    ELSE [ok |-> FALSE, bytes |-> <<>>, pos |-> Max(p, Len(f))]

\* Read::read into a buffer of n bytes: as many bytes as the file still has
read(f, p, n) ==
    LET k == Max(0, Min(n, Len(f) - p))
    IN [bytes |-> SubSeq(f, p + 1, p + k), pos |-> p + k]

read_u16_le(f, p) ==
    LET r == read_exact(f, p, 2)
    IN IF r.ok THEN [ok |-> TRUE, val |-> r.bytes[1] + 256 * r.bytes[2], pos |-> r.pos]
       ELSE [ok |-> FALSE, val |-> 0, pos |-> r.pos]

read_u16_be(f, p) ==
    LET r == read_exact(f, p, 2)
    IN IF r.ok THEN [ok |-> TRUE, val |-> 256 * r.bytes[1] + r.bytes[2], pos |-> r.pos]
       ELSE [ok |-> FALSE, val |-> 0, pos |-> r.pos]

read_u32_le(f, p) ==
    LET r == read_exact(f, p, 4)
    IN IF r.ok
       THEN [ok |-> TRUE,
             val |-> [lo |-> r.bytes[1] + 256 * r.bytes[2],
                      hi |-> r.bytes[3] + 256 * r.bytes[4]],
             pos |-> r.pos]
       ELSE [ok |-> FALSE, val |-> U32Zero, pos |-> r.pos]

(***************************************************************************)
(* NARC: constants and header types.                                       *)
(***************************************************************************)
\* 0x4352414E, "NARC"
NARC_MAGIC == [hi |-> 17234, lo |-> 16718]
\* 0x46415442, "BTAF"
FATB_MAGIC == [hi |-> 17985, lo |-> 21570]
\* 0x464E5442, "BTNF"
FNTB_MAGIC == [hi |-> 17998, lo |-> 21570]
\* 0x46494D47, "GMIF"
FIMG_MAGIC == [hi |-> 17993, lo |-> 19783]

\* Option<NarcFileAllocationTableBlock> / Option<NarcFileNameTableBlock> /
\* Option<NarcFileImageBlock>: `some` tells Some from None
NoFat == [some |-> FALSE, chunk_size |-> U32Zero, number_of_files |-> 0, files |-> <<>>]
NoFnt == [some |-> FALSE, chunk_size |-> U32Zero]
NoFiles == [some |-> FALSE, chunk_size |-> U32Zero, img_position |-> 0]

NoHeader ==
    [byte_order |-> "None", version |-> 0, file_size |-> U32Zero,
     narc_header_size |-> 0, number_of_chunks |-> 0,
     fat |-> NoFat, fnt |-> NoFnt, files |-> NoFiles]

\* NarcByteOrder::from_bom
from_bom(bom) ==
    IF bom = <<254, 255>> THEN "BigEndian"
    ELSE IF bom = <<255, 254>> THEN "LittleEndian"
    ELSE "Err"

(***************************************************************************)
(* read_fatb_chunk: the file count, the reserved field, then the entries.  *)
(***************************************************************************)
RECURSIVE read_fat_entries(_, _, _, _)
read_fat_entries(f, p, n, acc) ==
    IF n = 0 THEN [ok |-> TRUE, files |-> acc, pos |-> p]
    ELSE LET s == read_u32_le(f, p)
             e == read_u32_le(f, s.pos)
         IN IF ~s.ok \/ ~e.ok THEN [ok |-> FALSE, files |-> <<>>, pos |-> p]
            ELSE read_fat_entries(f, e.pos, n - 1,
                    Append(acc, [start_address |-> s.val, end_address |-> e.val]))

read_fatb_chunk(f, p, chunk_size) ==
    LET n == read_u16_le(f, p)
    IN IF ~n.ok THEN [ok |-> FALSE, fat |-> NoFat, pos |-> p]
       ELSE LET es == read_fat_entries(f, n.pos + 2, n.val, <<>>)
            IN IF ~es.ok THEN [ok |-> FALSE, fat |-> NoFat, pos |-> p]
               ELSE [ok |-> TRUE,
                     fat |-> [some |-> TRUE, chunk_size |-> chunk_size,
                              number_of_files |-> n.val, files |-> es.files],
                     pos |-> es.pos]

\* read_fntb_chunk: the name table is not parsed, only its size is kept
read_fntb_chunk(f, p, chunk_size) == [some |-> TRUE, chunk_size |-> chunk_size]

(***************************************************************************)
(* read_chunks: number_of_chunks chunks, each read at the start of the     *)
(* previous one plus its declared size.  k counts the chunks still to read.*)
(***************************************************************************)
\* read_chunks without the seek at the end of the loop: the next chunk is
\* read where the parser of this one stopped
RECURSIVE read_chunks_contiguous(_, _, _, _)
read_chunks_contiguous(f, p, hdr, k) ==
    IF k = 0 THEN [ok |-> TRUE, err |-> "", header |-> hdr, pos |-> p]
    ELSE
    LET chunk_magic == read_u32_le(f, p)
        chunk_size == read_u32_le(f, chunk_magic.pos)
        bad == [ok |-> FALSE, err |-> "FileReadError", header |-> NoHeader, pos |-> p]
    IN IF ~chunk_magic.ok \/ ~chunk_size.ok THEN bad
       ELSE LET body == chunk_size.pos
            IN IF chunk_magic.val = FATB_MAGIC
               THEN LET fatb == read_fatb_chunk(f, body, chunk_size.val)
                    IN IF ~fatb.ok THEN bad
                       ELSE read_chunks_contiguous(f, fatb.pos, [hdr EXCEPT !.fat = fatb.fat],
                                                   k - 1)
               ELSE IF chunk_magic.val = FNTB_MAGIC
               THEN read_chunks_contiguous(f, body,
                        [hdr EXCEPT !.fnt = read_fntb_chunk(f, body, chunk_size.val)], k - 1)
               ELSE IF chunk_magic.val = FIMG_MAGIC
               THEN read_chunks_contiguous(f, body,
                        [hdr EXCEPT !.files = [some |-> TRUE, chunk_size |-> chunk_size.val,
                                               img_position |-> body]], k - 1)
               ELSE read_chunks_contiguous(f, body, hdr, k - 1)

RECURSIVE read_chunks(_, _, _, _)
read_chunks(f, p, hdr, k) ==
    IF k = 0 THEN [ok |-> TRUE, err |-> "", header |-> hdr, pos |-> p]
    ELSE
    LET start_pos == p
        chunk_magic == read_u32_le(f, p)
        chunk_size == read_u32_le(f, chunk_magic.pos)
        bad == [ok |-> FALSE, err |-> "FileReadError", header |-> NoHeader, pos |-> p]
    IN IF ~chunk_magic.ok \/ ~chunk_size.ok THEN bad
       ELSE LET body == chunk_size.pos
                next_pos == start_pos + as_u64(chunk_size.val)
            IN IF chunk_magic.val = FATB_MAGIC
               THEN LET fatb == read_fatb_chunk(f, body, chunk_size.val)
                    IN IF ~fatb.ok THEN bad
                       ELSE read_chunks(f, next_pos, [hdr EXCEPT !.fat = fatb.fat], k - 1)
               ELSE IF chunk_magic.val = FNTB_MAGIC
               THEN read_chunks(f, next_pos,
                        [hdr EXCEPT !.fnt = read_fntb_chunk(f, body, chunk_size.val)], k - 1)
               ELSE IF chunk_magic.val = FIMG_MAGIC
               THEN read_chunks(f, next_pos,
                        [hdr EXCEPT !.files = [some |-> TRUE, chunk_size |-> chunk_size.val,
                                               img_position |-> body]], k - 1)
               ELSE read_chunks(f, next_pos, hdr, k - 1)

(***************************************************************************)
(* read_header: magic (unless skipped), order mark, version, file size,    *)
(* header size, chunk count, then the chunks.                              *)
(***************************************************************************)
HeaderFail(e) == [ok |-> FALSE, err |-> e, header |-> NoHeader, pos |-> 0]

read_header_after_magic(f, fl, p0) ==
    LET b == read(f, p0, 2)
        bom == b.bytes \o [i \in 1..(2 - Len(b.bytes)) |-> 0]
        byte_order == from_bom(bom)
    IN IF ~fl.skip_bom_check /\ byte_order = "Err" THEN HeaderFail("UnknownBom")
       ELSE
       LET version == IF byte_order = "LittleEndian" THEN read_u16_le(f, b.pos)
                      ELSE read_u16_be(f, b.pos)
           file_size == read_u32_le(f, version.pos)
           narc_header_size == read_u16_le(f, file_size.pos)
           number_of_chunks == read_u16_le(f, narc_header_size.pos)
       IN IF ~version.ok \/ ~file_size.ok \/ ~narc_header_size.ok \/ ~number_of_chunks.ok
          THEN HeaderFail("FileReadError")
          ELSE read_chunks(f, number_of_chunks.pos,
                  [byte_order |-> IF byte_order = "Err" THEN "None" ELSE byte_order,
                   version |-> version.val,
                   file_size |-> file_size.val,
                   narc_header_size |-> narc_header_size.val,
                   number_of_chunks |-> number_of_chunks.val,
                   fat |-> NoFat, fnt |-> NoFnt, files |-> NoFiles],
                  number_of_chunks.val)

read_header(f, fl) ==
    IF fl.skip_narc_magic_number_check THEN read_header_after_magic(f, fl, 0)
    ELSE LET magic == read_u32_le(f, 0)
         IN IF ~magic.ok THEN HeaderFail("FileReadError")
            ELSE IF magic.val # NARC_MAGIC THEN HeaderFail("WrongNarcMagic")
            ELSE read_header_after_magic(f, fl, magic.pos)

(***************************************************************************)
(* get_file: the FAT entry, the image block, the absolute seek, the read.  *)
(* Results are [tag, bytes, err, idx]: Ok(bytes), Err(err(idx)), Abort (the *)
(* process panicked), None (an exhausted iterator) or Unit.                *)
(***************************************************************************)
Ok(bytes) == [tag |-> "Ok", bytes |-> bytes, err |-> "", idx |-> 0]
Err(e, i) == [tag |-> "Err", bytes |-> <<>>, err |-> e, idx |-> i]
Abort == [tag |-> "Abort", bytes |-> <<>>, err |-> "", idx |-> 0]
None == [tag |-> "None", bytes |-> <<>>, err |-> "", idx |-> 0]
Unit == [tag |-> "Unit", bytes |-> <<>>, err |-> "", idx |-> 0]

number_of_files(hdr) == IF hdr.fat.some THEN hdr.fat.number_of_files ELSE 0

\* a seek relative to the current position instead of the start of the file
seek_from_current(p, target) == p + target

\* self.reader.seek(SeekFrom::Start(target)) issued from position p
seek_start(p, target) == target

\* The modelled files are far shorter than 2^31 bytes, so a size of 2^31 or
\* more always runs past the end of the file.
read_member(f, p, file_size) ==
    IF file_size.hi >= 32768
    THEN [res |-> Err("FileReadError", 0), pos |-> Max(p, Len(f))]
    ELSE LET r == read_exact(f, p, as_u64(file_size))
         IN [res |-> IF r.ok THEN Ok(r.bytes) ELSE Err("FileReadError", 0),
             pos |-> r.pos]

\* get_file looking for the image block before it looks up the FAT entry
get_file_image_first(hdr, f, p, checks, index) ==
    IF ~hdr.fat.some THEN [res |-> Err("FatBlockNotFound", 0), pos |-> p]
    ELSE IF ~hdr.files.some THEN [res |-> Err("FimgBlockNotFound", 0), pos |-> p]
    ELSE IF index >= Len(hdr.fat.files) THEN [res |-> Err("FileNotFound", index), pos |-> p]
    ELSE LET fat_entry == hdr.fat.files[index + 1]
             start_seek_pos == hdr.files.img_position + as_u64(fat_entry.start_address)
         IN IF checks /\ u32_lt(fat_entry.end_address, fat_entry.start_address)
            THEN [res |-> Abort, pos |-> p]
            ELSE read_member(f, seek_start(p, start_seek_pos),
                     wrapping_sub(fat_entry.end_address, fat_entry.start_address))

\* get_file(index) on header hdr, file f, handle position p, in a build that
\* traps on overflow (checks) or wraps: the result and the new position
get_file(hdr, f, p, checks, index) ==
    IF ~hdr.fat.some THEN [res |-> Err("FatBlockNotFound", 0), pos |-> p]
    ELSE IF index >= Len(hdr.fat.files) THEN [res |-> Err("FileNotFound", index), pos |-> p]
    ELSE IF ~hdr.files.some THEN [res |-> Err("FimgBlockNotFound", 0), pos |-> p]
    ELSE LET fat_entry == hdr.fat.files[index + 1]
             start_seek_pos == hdr.files.img_position + as_u64(fat_entry.start_address)
         IN IF checks /\ u32_lt(fat_entry.end_address, fat_entry.start_address)
            THEN [res |-> Abort, pos |-> p]
            ELSE read_member(f, seek_start(p, start_seek_pos),
                     wrapping_sub(fat_entry.end_address, fat_entry.start_address))

(***************************************************************************)
(* The archive files the model opens.  A file is built from a description  *)
(* (header variant, chunk kinds in file order, FAT entries, bytes cut off   *)
(* the end) in the on-disk layout that read_header and read_chunks parse.  *)
(***************************************************************************)
U16Bytes(n) == <<n % 256, n \div 256>>
U32Bytes(v) == <<v.lo % 256, v.lo \div 256, v.hi % 256, v.hi \div 256>>

\* the image payload of the modelled archives
Payload == <<222, 173, 190, 239, 202, 254, 186, 190>>

RECURSIVE FatEntryBytes(_)
FatEntryBytes(fat) ==
    IF fat = <<>> THEN <<>>
    ELSE U32Bytes(U32(Head(fat)[1])) \o U32Bytes(U32(Head(fat)[2])) \o FatEntryBytes(Tail(fat))

ChunkBytes(kind, fat) ==
    IF kind = "FATB"
    THEN U32Bytes(FATB_MAGIC) \o U32Bytes(U32(12 + 8 * Len(fat)))
         \o U16Bytes(Len(fat)) \o <<0, 0>> \o FatEntryBytes(fat)
    ELSE IF kind = "FNTB"
    THEN U32Bytes(FNTB_MAGIC) \o U32Bytes(U32(8))
    ELSE IF kind = "FIMG"
    THEN U32Bytes(FIMG_MAGIC) \o U32Bytes(U32(8 + Len(Payload))) \o Payload
    ELSE <<88, 88, 88, 88>> \o U32Bytes(U32(10)) \o <<1, 2>>

RECURSIVE ChunksBytes(_, _)
ChunksBytes(kinds, fat) ==
    IF kinds = <<>> THEN <<>>
    ELSE ChunkBytes(Head(kinds), fat) \o ChunksBytes(Tail(kinds), fat)

NarcBytes(magic, bom, kinds, fat, cut) ==
    LET chunks == ChunksBytes(kinds, fat)
        whole == magic \o bom \o <<0, 1>> \o U32Bytes(U32(16 + Len(chunks)))
                 \o U16Bytes(16) \o U16Bytes(Len(kinds)) \o chunks
    IN SubSeq(whole, 1, Max(0, Len(whole) - cut))

KindSeqs ==
    { <<"FATB", "FNTB", "FIMG">>, <<"FATB", "FIMG">>, <<"FIMG", "FATB">>,
      <<"FATB">>, <<"FIMG">>, <<"UNKN", "FATB", "FIMG">>, <<>> }

\* FAT tables: well formed, out of order, empty member, past the payload,
\* end below start
Fats ==
    { <<>>,
      << <<0, 4>>, <<4, 8>> >>,
      << <<4, 8>>, <<0, 4>> >>,
      << <<0, 0>>, <<2, 6>> >>,
      << <<0, 4>>, <<6, 12>> >>,
      << <<2, 1>>, <<0, 4>> >>,
      << <<0, 4>>, <<4, 8>>, <<0, 8>> >> }

Cuts == {0, 5}

GoodMagic == U32Bytes(NARC_MAGIC)

\* an archive of the given chunk count over the given chunk bytes
RawNarc(number_of_chunks, chunks) ==
    GoodMagic \o <<255, 254>> \o <<0, 1>> \o U32Bytes(U32(16 + Len(chunks)))
    \o U16Bytes(16) \o U16Bytes(number_of_chunks) \o chunks

\* a FATB chunk of declared size 12 whose one entry runs past that size and
\* holds the magic and the size of an image chunk
OverrunFatb ==
    U32Bytes(FATB_MAGIC) \o U32Bytes(U32(12)) \o U16Bytes(1) \o <<0, 0>>
    \o U32Bytes(FIMG_MAGIC) \o U32Bytes(U32(8 + Len(Payload))) \o Payload

\* a FATB chunk whose declared size leaves four bytes after its entry
PaddedFatb ==
    U32Bytes(FATB_MAGIC) \o U32Bytes(U32(24)) \o U16Bytes(1) \o <<0, 0>>
    \o U32Bytes(U32(0)) \o U32Bytes(U32(4)) \o <<9, 9, 9, 9>>

\* archives whose chunks declare sizes other than what their parsers read:
\* entries past the declared size, padding, size 0, an unknown chunk of a
\* size past the end of the file, more chunks than the header counts
ChunkArchives ==
    { RawNarc(2, OverrunFatb),
      RawNarc(2, PaddedFatb \o ChunkBytes("FIMG", <<>>)),
      RawNarc(2, U32Bytes(FIMG_MAGIC) \o U32Bytes(U32(0))
                 \o ChunkBytes("FATB", << <<0, 4>> >>)),
      RawNarc(2, U32Bytes(FNTB_MAGIC) \o U32Bytes(U32(0))
                 \o ChunkBytes("FIMG", <<>>)),
      RawNarc(2, <<88, 88, 88, 88>> \o U32Bytes(U32(100))
                 \o ChunkBytes("FATB", << <<0, 4>> >>)),
      RawNarc(1, ChunkBytes("FATB", << <<0, 4>> >>) \o ChunkBytes("FIMG", <<>>)) }

Archives ==
    { NarcBytes(GoodMagic, <<255, 254>>, k, t, c) : k \in KindSeqs, t \in Fats, c \in Cuts }
    \cup ChunkArchives
    \cup { NarcBytes(GoodMagic, <<254, 255>>, <<"FATB", "FNTB", "FIMG">>,
                     << <<0, 4>>, <<4, 8>> >>, 0),
           NarcBytes(<<78, 65, 82, 67 + 1>>, <<255, 254>>, <<"FATB", "FNTB", "FIMG">>,
                     << <<0, 4>>, <<4, 8>> >>, 0),
           NarcBytes(GoodMagic, <<0, 0>>, <<"FATB", "FNTB", "FIMG">>,
                     << <<0, 4>>, <<4, 8>> >>, 0) }

\* NarcReaderFlags
FlagSet ==
    { [skip_narc_magic_number_check |-> m, skip_bom_check |-> b] : m, b \in BOOLEAN }

(***************************************************************************)
(* Area-light text: lines, fields and numbers.  Texts are strings; the     *)
(* character at position i of s is SubSeq(s, i, i).                         *)
(***************************************************************************)
CharAt(s, i) == SubSeq(s, i, i)

\* the first position >= start of s that holds character c, 0 when none does
find(s, start, c) ==
    LET hits == { i \in start..Len(s) : CharAt(s, i) = c }
    IN IF hits = {} THEN 0 ELSE CHOOSE i \in hits : \A j \in hits : i <= j

\* str::lines: split at "\n", a "\r" before the "\n" is dropped, a final line
\* ending is optional
RECURSIVE str_lines_from(_, _, _)
str_lines_from(s, start, acc) ==
    IF start > Len(s) THEN acc
    ELSE LET nl == find(s, start, "\n")
         IN IF nl = 0 THEN Append(acc, SubSeq(s, start, Len(s)))
            ELSE LET last == IF nl - 1 >= start /\ CharAt(s, nl - 1) = "\r"
                             THEN nl - 2 ELSE nl - 1
                 IN str_lines_from(s, nl + 1, Append(acc, SubSeq(s, start, last)))

str_lines(s) == str_lines_from(s, 1, <<>>)

\* str::split(","): the fields between the commas; an empty line has one
\* empty field
RECURSIVE split_from(_, _, _)
split_from(s, start, acc) ==
    LET comma == find(s, start, ",")
    IN IF comma = 0 THEN Append(acc, SubSeq(s, start, Len(s)))
       ELSE split_from(s, comma + 1, Append(acc, SubSeq(s, start, comma - 1)))

split(s) == split_from(s, 1, <<>>)

IsDigit(c) == c \in {"0", "1", "2", "3", "4", "5", "6", "7", "8", "9"}
DigitVal(c) == CHOOSE d \in 0..9 : CharAt("0123456789", d + 1) = c

\* <u8 as FromStr>::from_str / <i16 as FromStr>::from_str: an optional sign
\* ("-" only for a signed type), then decimal digits accumulated with an
\* overflow check against the type's range min..max
RECURSIVE parse_digits(_, _, _, _, _, _)
parse_digits(s, i, positive, result, min, max) ==
    IF i > Len(s) THEN [ok |-> TRUE, val |-> result, cause |-> ""]
    ELSE LET c == CharAt(s, i)
         IN IF ~IsDigit(c) THEN [ok |-> FALSE, val |-> 0, cause |-> "InvalidDigit"]
            ELSE LET r == IF positive THEN result * 10 + DigitVal(c)
                          ELSE result * 10 - DigitVal(c)
                 IN IF r > max THEN [ok |-> FALSE, val |-> 0, cause |-> "PosOverflow"]
                    ELSE IF r < min THEN [ok |-> FALSE, val |-> 0, cause |-> "NegOverflow"]
                    ELSE parse_digits(s, i + 1, positive, r, min, max)

parse_int(s, signed, min, max) ==
    IF Len(s) = 0 THEN [ok |-> FALSE, val |-> 0, cause |-> "Empty"]
    ELSE IF Len(s) = 1 /\ s \in {"+", "-"}
    THEN [ok |-> FALSE, val |-> 0, cause |-> "InvalidDigit"]
    ELSE IF CharAt(s, 1) = "+" THEN parse_digits(s, 2, TRUE, 0, min, max)
    ELSE IF CharAt(s, 1) = "-" /\ signed THEN parse_digits(s, 2, FALSE, 0, min, max)
    ELSE parse_digits(s, 1, TRUE, 0, min, max)

parse_u8(s) == parse_int(s, FALSE, 0, 255)
parse_i16(s) == parse_int(s, TRUE, -32768, 32767)

\* <u32 as FromStr>::from_str, the value kept as two 16-bit halves
RECURSIVE parse_u32_digits(_, _, _)
parse_u32_digits(s, i, result) ==
    IF i > Len(s) THEN [ok |-> TRUE, val |-> result, cause |-> ""]
    ELSE LET c == CharAt(s, i)
         IN IF ~IsDigit(c) THEN [ok |-> FALSE, val |-> U32Zero, cause |-> "InvalidDigit"]
            ELSE LET lo == result.lo * 10 + DigitVal(c)
                     hi == result.hi * 10 + lo \div Pow16
                 IN IF hi >= Pow16
                    THEN [ok |-> FALSE, val |-> U32Zero, cause |-> "PosOverflow"]
                    ELSE parse_u32_digits(s, i + 1, [hi |-> hi, lo |-> lo % Pow16])

parse_u32(s) ==
    IF Len(s) = 0 THEN [ok |-> FALSE, val |-> U32Zero, cause |-> "Empty"]
    ELSE IF Len(s) = 1 /\ s \in {"+", "-"}
    THEN [ok |-> FALSE, val |-> U32Zero, cause |-> "InvalidDigit"]
    ELSE IF CharAt(s, 1) = "+" THEN parse_u32_digits(s, 2, U32Zero)
    ELSE parse_u32_digits(s, 1, U32Zero)

(***************************************************************************)
(* Area-light blocks and errors.                                           *)
(***************************************************************************)
\* AreaLightBlockLine::next
next(line) ==
    CASE line = "EndTime" -> "Light0"
      [] line = "Light0" -> "Light1"
      [] line = "Light1" -> "Light2"
      [] line = "Light2" -> "Light3"
      [] line = "Light3" -> "DiffuseReflectColor"
      [] line = "DiffuseReflectColor" -> "AmbientReflectColor"
      [] line = "AmbientReflectColor" -> "SpecularReflectColor"
      [] line = "SpecularReflectColor" -> "EmissionColor"
      [] line = "EmissionColor" -> "End"
      [] OTHER -> "End"

DsRgb(r, g, b) == [red |-> r, green |-> g, blue |-> b]
\* DsFixed16::ONE and DsFixed16::NEG_ONE as bits (12 fractional bits)
FIXED_ONE == 4096
FIXED_NEG_ONE == -4096
\* DsVecFixed16: each component is the raw bit pattern of an I4F12, as an i16
DsVec(x, y, z) == [x |-> x, y |-> y, z |-> z]

\* Option<AreaLightProperties>
NoLight == [some |-> FALSE, color |-> DsRgb(0, 0, 0), direction |-> DsVec(0, 0, 0)]
SomeLight(color, direction) == [some |-> TRUE, color |-> color, direction |-> direction]

\* AreaLightBlock::default()
DefaultBlock ==
    [end_time |-> U32Zero,
     light_0 |-> NoLight, light_1 |-> NoLight, light_2 |-> NoLight, light_3 |-> NoLight,
     diffuse_reflect_color |-> DsRgb(0, 0, 0), ambient_reflect_color |-> DsRgb(0, 0, 0),
     specular_reflect_color |-> DsRgb(0, 0, 0), emission_color |-> DsRgb(0, 0, 0)]

\* AreaLightError values; a field an error does not carry is 0 or ""
LightErr(kind, line, n, param, cause) ==
    [kind |-> kind, line |-> line, line_no |-> n, param |-> param, cause |-> cause]
NotEnoughParameters(line, n) == LightErr("NotEnoughParameters", line, n, 0, "")
MalformedLineParameter(line, n, param, cause) ==
    LightErr("MalformedLineParameter", line, n, param, cause)
EarlyEmptyLine(n) == LightErr("EarlyEmptyLine", "", n, 0, "")
BlockParseOverrun == LightErr("BlockParseOverrun", "", 0, 0, "")
MalformedBlockLine(line, n) == LightErr("MalformedBlockLine", line, n, 0, "")
NoLightErr == LightErr("", "", 0, 0, "")

\* the parse of the three colour fields, in order, given their from_str results
color_of(red, green, blue, k, line, n) ==
    IF ~red.ok
    THEN [ok |-> FALSE, err |-> MalformedLineParameter(line, n, k, red.cause),
          val |-> DsRgb(0, 0, 0)]
    ELSE IF ~green.ok
    THEN [ok |-> FALSE, err |-> MalformedLineParameter(line, n, k + 1, green.cause),
          val |-> DsRgb(0, 0, 0)]
    ELSE IF ~blue.ok
    THEN [ok |-> FALSE, err |-> MalformedLineParameter(line, n, k + 2, blue.cause),
          val |-> DsRgb(0, 0, 0)]
    ELSE [ok |-> TRUE, err |-> NoLightErr, val |-> DsRgb(red.val, green.val, blue.val)]

\* parse_color_parameters: the next three fields of the enumeration, which
\* has already yielded k fields; all three are fetched before any is parsed
parse_color_parameters(fields, k, line, n) ==
    IF Len(fields) < k + 3
    THEN [ok |-> FALSE, err |-> NotEnoughParameters(line, n), val |-> DsRgb(0, 0, 0)]
    ELSE color_of(parse_u8(fields[k + 1]), parse_u8(fields[k + 2]), parse_u8(fields[k + 3]),
                  k, line, n)

\* the vector with the integers taken as whole numbers, not as bits
vector_of_from_num(x, y, z, k, line, n) ==
    IF ~x.ok
    THEN [ok |-> FALSE, err |-> MalformedLineParameter(line, n, k, x.cause),
          val |-> DsVec(0, 0, 0)]
    ELSE IF ~y.ok
    THEN [ok |-> FALSE, err |-> MalformedLineParameter(line, n, k + 1, y.cause),
          val |-> DsVec(0, 0, 0)]
    ELSE IF ~z.ok
    THEN [ok |-> FALSE, err |-> MalformedLineParameter(line, n, k + 2, z.cause),
          val |-> DsVec(0, 0, 0)]
    ELSE [ok |-> TRUE, err |-> NoLightErr,
          val |-> DsVec(x.val * FIXED_ONE, y.val * FIXED_ONE, z.val * FIXED_ONE)]

\* the parse of the three vector fields, in order, given their from_str
\* results; the integers are taken as the bits of the fixed-point components
vector_of(x, y, z, k, line, n) ==
    IF ~x.ok
    THEN [ok |-> FALSE, err |-> MalformedLineParameter(line, n, k, x.cause),
          val |-> DsVec(0, 0, 0)]
    ELSE IF ~y.ok
    THEN [ok |-> FALSE, err |-> MalformedLineParameter(line, n, k + 1, y.cause),
          val |-> DsVec(0, 0, 0)]
    ELSE IF ~z.ok
    THEN [ok |-> FALSE, err |-> MalformedLineParameter(line, n, k + 2, z.cause),
          val |-> DsVec(0, 0, 0)]
    ELSE [ok |-> TRUE, err |-> NoLightErr, val |-> DsVec(x.val, y.val, z.val)]

\* parse_vector_parameters: the next three fields, parsed as i16
parse_vector_parameters(fields, k, line, n) ==
    IF Len(fields) < k + 3
    THEN [ok |-> FALSE, err |-> NotEnoughParameters(line, n), val |-> DsVec(0, 0, 0)]
    ELSE vector_of(parse_i16(fields[k + 1]), parse_i16(fields[k + 2]),
                   parse_i16(fields[k + 3]), k, line, n)

\* the end of parse_light_line: the light of a colour and a direction
light_of(color, direction) ==
    IF ~direction.ok THEN [ok |-> FALSE, err |-> direction.err, val |-> NoLight]
    ELSE [ok |-> TRUE, err |-> NoLightErr, val |-> SomeLight(color.val, direction.val)]

\* a light line whose seven fields are counted before any is parsed
valid_light_counts_first(color, fields, line, n) ==
    IF Len(fields) < 7
    THEN [ok |-> FALSE, err |-> NotEnoughParameters(line, n), val |-> NoLight]
    ELSE IF ~color.ok THEN [ok |-> FALSE, err |-> color.err, val |-> NoLight]
    ELSE light_of(color, parse_vector_parameters(fields, 4, line, n))

\* parse_light_line after the validity field: the colour from field 1, and
\* only when it parsed the direction from field 4
valid_light(color, fields, line, n) ==
    IF ~color.ok THEN [ok |-> FALSE, err |-> color.err, val |-> NoLight]
    ELSE light_of(color, parse_vector_parameters(fields, 4, line, n))

\* a light line parsed without a look at its validity field
light_fields_always_valid(fields, line, n) ==
    valid_light(parse_color_parameters(fields, 1, line, n), fields, line, n)

light_fields(fields, line, n) ==
    IF fields[1] # "1" THEN [ok |-> TRUE, err |-> NoLightErr, val |-> NoLight]
    ELSE valid_light(parse_color_parameters(fields, 1, line, n), fields, line, n)

\* parse_light_line
parse_light_line(text, line, n) == light_fields(split(text), line, n)

\* parse_color_line
parse_color_line(text, line, n) == parse_color_parameters(split(text), 0, line, n)

\* the arms of the match of parse_string: the parsed value stored in block b
store_end_time(end_time, line, n, b) ==
    IF ~end_time.ok
    THEN [ok |-> FALSE, err |-> MalformedLineParameter(line, n, 0, end_time.cause),
          block |-> b]
    ELSE [ok |-> TRUE, err |-> NoLightErr, block |-> [b EXCEPT !.end_time = end_time.val]]

store_light(l, line, b) ==
    IF ~l.ok THEN [ok |-> FALSE, err |-> l.err, block |-> b]
    ELSE [ok |-> TRUE, err |-> NoLightErr,
          block |-> CASE line = "Light0" -> [b EXCEPT !.light_0 = l.val]
                      [] line = "Light1" -> [b EXCEPT !.light_1 = l.val]
                      [] line = "Light2" -> [b EXCEPT !.light_2 = l.val]
                      [] OTHER -> [b EXCEPT !.light_3 = l.val]]

store_color(c, line, b) ==
    IF ~c.ok THEN [ok |-> FALSE, err |-> c.err, block |-> b]
    ELSE [ok |-> TRUE, err |-> NoLightErr,
          block |-> CASE line = "DiffuseReflectColor" ->
                             [b EXCEPT !.diffuse_reflect_color = c.val]
                      [] line = "AmbientReflectColor" ->
                             [b EXCEPT !.ambient_reflect_color = c.val]
                      [] line = "SpecularReflectColor" ->
                             [b EXCEPT !.specular_reflect_color = c.val]
                      [] OTHER -> [b EXCEPT !.emission_color = c.val]]

\* the match of parse_string: line `text`, number n, parsed into block b
\* according to the machine's state
parse_block_line(text, line, n, b) ==
    IF line = "EndTime"
    THEN IF split(text) = <<>>
         THEN [ok |-> FALSE, err |-> MalformedBlockLine(line, n), block |-> b]
         ELSE store_end_time(parse_u32(split(text)[1]), line, n, b)
    ELSE IF line \in {"Light0", "Light1", "Light2", "Light3"}
    THEN store_light(parse_light_line(text, line, n), line, b)
    ELSE IF line \in {"DiffuseReflectColor", "AmbientReflectColor",
                      "SpecularReflectColor", "EmissionColor"}
    THEN store_color(parse_color_line(text, line, n), line, b)
    ELSE [ok |-> FALSE, err |-> BlockParseOverrun, block |-> b]

(***************************************************************************)
(* fix: the direction of every present light clamped to [-1.0, 1.0].       *)
(***************************************************************************)
\* a clamp without its lower bound
clamp_no_lower(v, lo, hi) == IF v > hi THEN hi ELSE v

\* Ord::clamp
clamp(v, lo, hi) == IF v < lo THEN lo ELSE IF v > hi THEN hi ELSE v

\* fix_light
fix_light(light) ==
    [light EXCEPT !.direction =
        DsVec(clamp(light.direction.x, FIXED_NEG_ONE, FIXED_ONE),
              clamp(light.direction.y, FIXED_NEG_ONE, FIXED_ONE),
              clamp(light.direction.z, FIXED_NEG_ONE, FIXED_ONE))]

fix_block(b) ==
    [b EXCEPT !.light_0 = IF b.light_0.some THEN fix_light(b.light_0) ELSE b.light_0,
              !.light_1 = IF b.light_1.some THEN fix_light(b.light_1) ELSE b.light_1,
              !.light_2 = IF b.light_2.some THEN fix_light(b.light_2) ELSE b.light_2,
              !.light_3 = IF b.light_3.some THEN fix_light(b.light_3) ELSE b.light_3]

\* AreaLight::fix
fix(bs) == [k \in 1..Len(bs) |-> fix_block(bs[k])]

(***************************************************************************)
(* The texts given to the area-light decoder: a run of well-formed block   *)
(* lines (any prefix of up to MaxBlocks blocks), then a tail of lines that  *)
(* ends, interrupts or breaks the block.                                   *)
(***************************************************************************)
\* the number of whole blocks a text holds at most
MaxBlocks == 2
\* fix() is applied at most this many times
MaxFix == 2

BlockA ==
    << "43200", "1,31,31,31,1000,0,0", "0,0,0,0,0,0,0", "0,0,0,0,0,0,0", "0,0,0,0,0,0,0",
       "10,10,10", "5,5,5", "0,0,0", "0,0,0" >>

BlockB ==
    << "+7", "1,1,2,3,-5000,4096,-4097", "x", "1,0,31,255,32767,-32768,5000", "0",
       "1,2,3,4", "255,0,31", "7,8,9", "3,2,1" >>

\* the blocks of a run one after the other, with the lines sep between two
RECURSIVE Flatten(_, _)
Flatten(ss, sep) ==
    IF ss = <<>> THEN <<>>
    ELSE IF Len(ss) = 1 THEN Head(ss)
    ELSE Head(ss) \o sep \o Flatten(Tail(ss), sep)

BlockRuns ==
    { Flatten(bs, sep) : bs \in [1..MaxBlocks -> {BlockA, BlockB}], sep \in {<<>>, <<"">>} }

LinePrefixes == UNION { { SubSeq(run, 1, k) : k \in 0..Len(run) } : run \in BlockRuns }

\* lines that end the text, are empty, lack fields or hold a field that is
\* no number
TailLines ==
    { "EOF", "", "EOF,1", "x", "1", "1,2", "1,x,3", "1,2,x", "300,1,1", "-1,2,3",
      "1,31,31", "1,31,31,31", "1,31,31,31,1,2", "1,x,3,4", "1,31,31,31,x,0,0",
      "1,31,31,31,0,y,0", "1,31,31,31,0,0,40000", "1,31,31,31,0,0,-40000",
      "4294967296", "4294967295" }

AfterLines == { "x,y", "43200", "" }

LineTails ==
    { <<>> } \cup { <<l>> : l \in TailLines }
    \cup { <<l, m>> : l \in {"EOF", ""}, m \in AfterLines }

RECURSIVE Join(_, _)
Join(ls, nl) ==
    IF ls = <<>> THEN ""
    ELSE IF Len(ls) = 1 THEN ls[1]
    ELSE ls[1] \o nl \o Join(Tail(ls), nl)

Newlines == { "\n", "\r\n" }

Texts ==
    { Join(p \o t, nl) \o e : p \in LinePrefixes, t \in LineTails,
                              nl \in Newlines, e \in {"", "\n"} }

(***************************************************************************)
(* The map-prop animation list: a four-byte header, then four u32 ids.     *)
(***************************************************************************)
MAX_MAP_PROP_ANIMATIONS == 4
INVALID_MAP_PROP_ANIMATION_ID == [hi |-> 65535, lo |-> 65535]

\* Cursor::seek_relative: the position may pass the end of the bytes
seek_relative(p, offset) == p + offset

read_u8(f, p) ==
    LET r == read_exact(f, p, 1)
    IN IF r.ok THEN [ok |-> TRUE, val |-> r.bytes[1], pos |-> r.pos]
       ELSE [ok |-> FALSE, val |-> 0, pos |-> r.pos]

\* MapPropAnimationList::parse_flags: bits 0 and 1 of the flags byte
parse_flags(f, p) ==
    LET raw_flags == read_u8(f, p)
    IN [ok |-> raw_flags.ok, pos |-> raw_flags.pos,
        deferred_loading |-> raw_flags.val % 2 # 0,
        deferred_add_to_render_object |-> (raw_flags.val \div 2) % 2 # 0]

AnimErr(e) ==
    [tag |-> "Err", err |-> e, map_prop_animation_ids |-> <<>>,
     deferred_loading |-> FALSE, deferred_add_to_render_object |-> FALSE,
     is_bicycle_slope |-> FALSE]

\* the loop of parse_bytes with every id pushed, the invalid id too
RECURSIVE read_animation_ids_no_break(_, _, _, _)
read_animation_ids_no_break(f, p, i, ids) ==
    IF i >= MAX_MAP_PROP_ANIMATIONS THEN [ok |-> TRUE, ids |-> ids]
    ELSE LET id == read_u32_le(f, p)
         IN IF ~id.ok THEN [ok |-> FALSE, ids |-> <<>>]
            ELSE read_animation_ids_no_break(f, id.pos, i + 1, Append(ids, id.val))

\* the loop of parse_bytes: at most MAX_MAP_PROP_ANIMATIONS ids are read, the
\* invalid id ends the loop
RECURSIVE read_animation_ids(_, _, _, _)
read_animation_ids(f, p, i, ids) ==
    IF i >= MAX_MAP_PROP_ANIMATIONS THEN [ok |-> TRUE, ids |-> ids]
    ELSE LET id == read_u32_le(f, p)
         IN IF ~id.ok THEN [ok |-> FALSE, ids |-> <<>>]
            ELSE IF id.val = INVALID_MAP_PROP_ANIMATION_ID THEN [ok |-> TRUE, ids |-> ids]
            ELSE read_animation_ids(f, id.pos, i + 1, Append(ids, id.val))

\* the end of parse_bytes, given the flags, the slope byte and the ids
animation_list_of(fl, slope, ids) ==
    IF ~ids.ok THEN AnimErr("ReadError")
    ELSE [tag |-> "Ok", err |-> "", map_prop_animation_ids |-> ids.ids,
          deferred_loading |-> fl.deferred_loading,
          deferred_add_to_render_object |-> fl.deferred_add_to_render_object,
          is_bicycle_slope |-> slope.val # 0]

animation_list_after_slope(f, fl, slope) ==
    IF ~slope.ok THEN AnimErr("ReadError")
    ELSE animation_list_of(fl, slope,
                           read_animation_ids(f, seek_relative(slope.pos, 1), 0, <<>>))

animation_list_after_flags(f, fl) ==
    IF ~fl.ok THEN AnimErr("ReadError")
    ELSE animation_list_after_slope(f, fl, read_u8(f, fl.pos))

\* MapPropAnimationList::parse_bytes
MapPropAnimationList_parse_bytes(f) ==
    animation_list_after_flags(f, parse_flags(f, seek_relative(0, 1)))

(***************************************************************************)
(* The lists given to the animation-list decoder: a header, up to          *)
(* MaxAnimIds ids, the last bytes cut off.                                  *)
(***************************************************************************)
MaxAnimIds == 5

AnimHeaders == { <<1, 0, 0, 0>>, <<0, 3, 1, 9>>, <<1, 2, 7, 0>>, <<1, 253, 0, 0>> }

\* ids as they are on disk: 0, 258, the invalid id and two ids close to it
AnimIdBytes ==
    { <<0, 0, 0, 0>>, <<2, 1, 0, 0>>, <<255, 255, 255, 255>>, <<255, 255, 255, 127>>,
      <<255, 255, 0, 0>> }

RECURSIVE Concat(_)
Concat(ss) == IF ss = <<>> THEN <<>> ELSE Head(ss) \o Concat(Tail(ss))

AnimCuts == { 0, 1, 4, 6 }

AnimLists ==
    { SubSeq(h \o Concat(ids), 1, Max(0, Len(h) + 4 * Len(ids) - c)) :
          h \in AnimHeaders,
          ids \in UNION { [1..n -> AnimIdBytes] : n \in 0..MaxAnimIds },
          c \in AnimCuts }

(***************************************************************************)
(* Material shapes: counts, then the locators, then the ids table.         *)
(***************************************************************************)
\* a + b on u16: aborts on overflow in a build that checks it, else wraps
u16_add(a, b, checks) ==
    IF a + b >= Pow16 THEN (IF checks THEN [ok |-> FALSE, val |-> 0]
                            ELSE [ok |-> TRUE, val |-> (a + b) % Pow16])
    ELSE [ok |-> TRUE, val |-> a + b]

\* a - b on u16
u16_sub(a, b, checks) ==
    IF a < b THEN (IF checks THEN [ok |-> FALSE, val |-> 0]
                   ELSE [ok |-> TRUE, val |-> (a - b) % Pow16])
    ELSE [ok |-> TRUE, val |-> a - b]

\* MapPropMaterialShapes::parse_locators
RECURSIVE parse_locators(_, _, _, _)
parse_locators(f, p, locators_count, locators) ==
    IF Len(locators) >= locators_count THEN [ok |-> TRUE, val |-> locators, pos |-> p]
    ELSE LET ids_count == read_u16_le(f, p)
             ids_index == read_u16_le(f, ids_count.pos)
         IN IF ~ids_count.ok \/ ~ids_index.ok THEN [ok |-> FALSE, val |-> <<>>, pos |-> p]
            ELSE parse_locators(f, ids_index.pos, locators_count,
                     Append(locators, [ids_count |-> ids_count.val,
                                       ids_index |-> ids_index.val]))

\* parse_ids with the two ids of an entry exchanged
RECURSIVE parse_ids_swapped(_, _, _, _)
parse_ids_swapped(f, p, ids_count, ids) ==
    IF Len(ids) >= ids_count THEN [ok |-> TRUE, val |-> ids, pos |-> p]
    ELSE LET material_id == read_u16_le(f, p)
             shape_id == read_u16_le(f, material_id.pos)
         IN IF ~material_id.ok \/ ~shape_id.ok THEN [ok |-> FALSE, val |-> <<>>, pos |-> p]
            ELSE parse_ids_swapped(f, shape_id.pos, ids_count,
                     Append(ids, [material_id |-> shape_id.val,
                                  shape_id |-> material_id.val]))

\* MapPropMaterialShapes::parse_ids
RECURSIVE parse_ids(_, _, _, _)
parse_ids(f, p, ids_count, ids) ==
    IF Len(ids) >= ids_count THEN [ok |-> TRUE, val |-> ids, pos |-> p]
    ELSE LET material_id == read_u16_le(f, p)
             shape_id == read_u16_le(f, material_id.pos)
         IN IF ~material_id.ok \/ ~shape_id.ok THEN [ok |-> FALSE, val |-> <<>>, pos |-> p]
            ELSE parse_ids(f, shape_id.pos, ids_count,
                     Append(ids, [material_id |-> material_id.val,
                                  shape_id |-> shape_id.val]))

\* ids[start_index..end_index], the end left out
slice_exclusive(ids, start_index, end_index) ==
    IF start_index > end_index \/ end_index > Len(ids) THEN [ok |-> FALSE, val |-> <<>>]
    ELSE [ok |-> TRUE, val |-> SubSeq(ids, start_index + 1, end_index)]

\* ids[start_index..=end_index]: aborts when the range is out of order or
\* ends past the table
slice_inclusive(ids, start_index, end_index) ==
    IF start_index > end_index + 1 \/ end_index + 1 > Len(ids)
    THEN [ok |-> FALSE, val |-> <<>>]
    ELSE [ok |-> TRUE, val |-> SubSeq(ids, start_index + 1, end_index + 1)]

\* Option<MapPropMaterialShapes>
NoShapes == [some |-> FALSE, ids_index |-> 0, ids |-> <<>>]
SomeShapes(ids_index, ids) == [some |-> TRUE, ids_index |-> ids_index, ids |-> ids]

\* the slot of a locator with ids_count > 0, given its end index
shapes_upto(locator, ids, end_index) ==
    IF ~end_index.ok THEN [ok |-> FALSE, val |-> NoShapes]
    ELSE IF ~slice_inclusive(ids, locator.ids_index, end_index.val).ok
    THEN [ok |-> FALSE, val |-> NoShapes]
    ELSE [ok |-> TRUE,
          val |-> SomeShapes(locator.ids_index,
                             slice_inclusive(ids, locator.ids_index, end_index.val).val)]

\* locator.ids_index + locator.ids_count - 1, left to right on u16
end_index_of(sum, checks) ==
    IF ~sum.ok THEN sum ELSE u16_sub(sum.val, 1, checks)

\* one iteration of the loop over the locators
shapes_of(locator, ids, checks) ==
    IF locator.ids_count > 0
    THEN shapes_upto(locator, ids,
             end_index_of(u16_add(locator.ids_index, locator.ids_count, checks), checks))
    ELSE [ok |-> TRUE, val |-> NoShapes]

\* the loop over the locators: the slots, or the abort of an iteration
RECURSIVE transform(_, _, _, _)
transform(locators, ids, checks, out) ==
    IF Len(out) >= Len(locators) THEN [tag |-> "Ok", val |-> out, err |-> ""]
    ELSE LET slot == shapes_of(locators[Len(out) + 1], ids, checks)
         IN IF ~slot.ok THEN [tag |-> "Abort", val |-> <<>>, err |-> ""]
            ELSE transform(locators, ids, checks, Append(out, slot.val))

MatShpErr(e) == [tag |-> "Err", val |-> <<>>, err |-> e]

matshp_after_ids(locators, ids, checks) ==
    IF ~ids.ok THEN MatShpErr("ReadError")
    ELSE transform(locators.val, ids.val, checks, <<>>)

matshp_after_locators(f, locators, ids_count, checks) ==
    IF ~locators.ok THEN MatShpErr("ReadError")
    ELSE matshp_after_ids(locators, parse_ids(f, locators.pos, ids_count.val, <<>>), checks)

matshp_after_counts(f, locators_count, ids_count, checks) ==
    IF ~locators_count.ok \/ ~ids_count.ok THEN MatShpErr("ReadError")
    ELSE matshp_after_locators(f, parse_locators(f, ids_count.pos, locators_count.val, <<>>),
                               ids_count, checks)

matshp_after_locators_count(f, locators_count, checks) ==
    matshp_after_counts(f, locators_count, read_u16_le(f, locators_count.pos), checks)

\* MapPropMaterialShapes::parse_bytes
MapPropMaterialShapes_parse_bytes(f, checks) ==
    matshp_after_locators_count(f, read_u16_le(f, 0), checks)

(***************************************************************************)
(* The files given to the material-shapes decoder: up to MaxLocators       *)
(* locators, a table of up to three ids, counts that match them or not,    *)
(* the last bytes cut off.                                                  *)
(***************************************************************************)
MaxLocators == 2

\* <<ids_count, ids_index>>
LocatorSet ==
    { <<0, 0>>, <<0, 7>>, <<1, 0>>, <<2, 1>>, <<3, 0>>, <<1, 3>>, <<2, 2>>,
      <<1, 65535>>, <<2, 65535>>, <<65535, 1>> }

IdsTable == << <<5, 6>>, <<7, 8>>, <<9, 10>> >>

PairBytes(ps) == Concat([k \in 1..Len(ps) |-> U16Bytes(ps[k][1]) \o U16Bytes(ps[k][2])])

MatShpCuts == { 0, 1 }

MatShpFiles ==
    { SubSeq(f, 1, Max(0, Len(f) - c)) :
          f \in { U16Bytes(Len(ls) + dl) \o U16Bytes(Max(0, n - dn)) \o PairBytes(ls)
                      \o PairBytes(SubSeq(IdsTable, 1, n)) :
                  ls \in UNION { [1..m -> LocatorSet] : m \in 0..MaxLocators },
                  n \in 0..3, dl \in {0, 1}, dn \in {0, 1} },
          c \in MatShpCuts }

(***************************************************************************)
(* Idle values of the components a specification does not run.             *)
(***************************************************************************)
NoLightRet == [tag |-> "Pending", blocks |-> <<>>, err |-> NoLightErr]

NoAnimRet == [tag |-> "Pending", err |-> "", map_prop_animation_ids |-> <<>>,
              deferred_loading |-> FALSE, deferred_add_to_render_object |-> FALSE,
              is_bicycle_slope |-> FALSE]

NoMatShpRet == [tag |-> "Pending", val |-> <<>>, err |-> ""]

\* the reader idle; the build is left open
NarcReaderIdle ==
    /\ file = <<>>
    /\ flags = [skip_narc_magic_number_check |-> FALSE, skip_bom_check |-> FALSE]
    /\ narc = [state |-> "closed", header |-> NoHeader, err |-> ""]
    /\ pos = 0
    /\ iter = [live |-> FALSE, curr |-> 0]
    /\ ret = [op |-> "none", index |-> 0, res |-> Unit]
    /\ yielded = <<>>
    /\ first = <<>>
    /\ calls = <<>>

NarcIdle == NarcReaderIdle /\ overflow_checks = FALSE

NoLandRet == [tag |-> "Pending", err |-> "", val |-> <<>>]

LandIdle == land_bytes = <<>> /\ land_ret = NoLandRet

SqlIdle ==
    /\ resources = <<>>
    /\ foreign_keys = FALSE
    /\ db_file = [exists |-> FALSE, db |-> <<>>]
    /\ export = [run |-> 0, running |-> FALSE]
    /\ outcomes = <<>>
    /\ history = <<>>
    /\ tx = [opened |-> 0, committed |-> 0]

\* no session: SqlRepl::repl has not been called
NoSession ==
    [pc |-> "constructed", input |-> "", prompts |-> 0, eof_reports |-> 0,
     errors |-> 0, tables |-> 0, changes |-> 0]

ReplIdle == stdin = <<>> /\ session = NoSession

\* load_resources has not been called
NoLoader ==
    [status |-> "idle", stage |-> 0, opened |-> FALSE, member |-> 0, reads |-> {},
     decoded |-> <<>>]

LoadIdle == paths = <<>> /\ loader = NoLoader

MoreIdle == LandIdle /\ SqlIdle /\ ReplIdle /\ LoadIdle

AnimIdle == anim_bytes = <<>> /\ anim_ret = NoAnimRet

MatShpIdle == matshp_bytes = <<>> /\ matshp_ret = NoMatShpRet

LightIdle ==
    /\ lines = <<>>
    /\ line_no = 0
    /\ current_block_line = "EndTime"
    /\ current_block = DefaultBlock
    /\ blocks = <<>>
    /\ al_ret = NoLightRet
    /\ area_light = <<>>
    /\ fix_count = 0

(***************************************************************************)
(* The NARC reader as a state machine.                                     *)
(***************************************************************************)
NoRet == [op |-> "none", index |-> 0, res |-> Unit]

InitNarc ==
    /\ file \in Archives
    /\ flags \in FlagSet
    /\ overflow_checks \in BOOLEAN
    /\ narc = [state |-> "closed", header |-> NoHeader, err |-> ""]
    /\ pos = 0
    /\ iter = [live |-> FALSE, curr |-> 0]
    /\ ret = NoRet
    /\ yielded = <<>>
    /\ first = [i \in 0..MaxIndex |-> Unit]
    /\ calls = [i \in 0..MaxIndex |-> 0]
    /\ LightIdle
    /\ AnimIdle
    /\ MatShpIdle
    /\ MoreIdle

\* NarcReader::read_from_file
read_from_file ==
    /\ narc.state = "closed"
    /\ LET h == read_header(file, flags)
       IN /\ narc' = IF h.ok THEN [state |-> "open", header |-> h.header, err |-> ""]
                     ELSE [state |-> "failed", header |-> NoHeader, err |-> h.err]
          /\ pos' = h.pos
    /\ ret' = [op |-> "read_from_file", index |-> 0, res |-> Unit]
    /\ UNCHANGED <<file, flags, overflow_checks, iter, yielded, first, calls, notNarc>>

\* A direct NarcReader::get_file(index); the borrow rules allow it only while
\* no iterator is alive.
get_file_call(index) ==
    /\ narc.state = "open"
    /\ ~iter.live
    /\ LET g == get_file(narc.header, file, pos, overflow_checks, index)
       IN /\ pos' = g.pos
          /\ ret' = [op |-> "get_file", index |-> index, res |-> g.res]
          /\ first' = IF calls[index] = 0 THEN [first EXCEPT ![index] = g.res] ELSE first
          /\ calls' = [calls EXCEPT ![index] = Min(calls[index] + 1, 2)]
          /\ narc' = IF g.res = Abort THEN [narc EXCEPT !.state = "aborted"] ELSE narc
    /\ UNCHANGED <<file, flags, overflow_checks, iter, yielded, notNarc>>

\* NarcReader::files_iter / NarcReaderFilesIter::new
files_iter ==
    /\ narc.state = "open"
    /\ ~iter.live
    /\ iter' = [live |-> TRUE, curr |-> 0]
    /\ yielded' = <<>>
    /\ ret' = [op |-> "files_iter", index |-> 0, res |-> Unit]
    /\ UNCHANGED <<file, flags, overflow_checks, narc, pos, first, calls, notNarc>>

\* next() with the end test off by one
iter_next_step_off_by_one(hdr, f, p, checks, curr) ==
    IF curr > number_of_files(hdr)
    THEN [item |-> None, curr |-> curr, pos |-> p]
    ELSE LET g == get_file(hdr, f, p, checks, curr)
         IN [item |-> g.res, curr |-> curr + 1, pos |-> g.pos]

\* NarcReaderFilesIter::next: the item and the iterator's new index
iter_next_step(hdr, f, p, checks, curr) ==
    IF curr >= number_of_files(hdr)
    THEN [item |-> None, curr |-> curr, pos |-> p]
    ELSE LET g == get_file(hdr, f, p, checks, curr)
         IN [item |-> g.res, curr |-> curr + 1, pos |-> g.pos]

iter_next ==
    /\ narc.state = "open"
    /\ iter.live
    /\ Len(yielded) < number_of_files(narc.header) + MaxExtraNext
    /\ LET n == iter_next_step(narc.header, file, pos, overflow_checks, iter.curr)
       IN /\ iter' = [iter EXCEPT !.curr = n.curr]
          /\ pos' = n.pos
          /\ yielded' = Append(yielded, n.item)
          /\ ret' = [op |-> "next", index |-> iter.curr, res |-> n.item]
          /\ narc' = IF n.item = Abort THEN [narc EXCEPT !.state = "aborted"] ELSE narc
    /\ UNCHANGED <<file, flags, overflow_checks, first, calls, notNarc>>

\* the iterator goes out of scope
iter_drop ==
    /\ narc.state = "open"
    /\ iter.live
    /\ iter' = [live |-> FALSE, curr |-> 0]
    /\ yielded' = <<>>
    /\ ret' = [op |-> "drop", index |-> 0, res |-> Unit]
    /\ UNCHANGED <<file, flags, overflow_checks, narc, pos, first, calls, notNarc>>

get_file_any == \E index \in 0..MaxIndex : get_file_call(index)

NextNarc ==
    \/ read_from_file
    \/ get_file_any
    \/ files_iter
    \/ iter_next
    \/ iter_drop

SpecNarc == InitNarc /\ [][NextNarc]_vars

(***************************************************************************)
(* Claims about the NARC reader.                                           *)
(***************************************************************************)
\* the last call was get_file(i) on an archive with a FAT and an image block,
\* with i < count()
MemberCall ==
    /\ ret.op = "get_file"
    /\ narc.header.fat.some
    /\ narc.header.files.some
    /\ ret.index < number_of_files(narc.header)

MemberEntry == narc.header.fat.files[ret.index + 1]
MemberStart == narc.header.files.img_position + as_u64(MemberEntry.start_address)
MemberSize == as_u64(MemberEntry.end_address) - as_u64(MemberEntry.start_address)

NoReadErrors == {"FatBlockNotFound", "FileNotFound", "FimgBlockNotFound"}

\* C2, the selection: no FAT chunk gives count() = 0 and MissingFAT for every
\* index; a FAT chunk and index >= count() gives MemberNotFound(index), also
\* without an image block; a FAT chunk, index < count() and no image block
\* gives MissingImage.
C2_Selection ==
    ret.op = "get_file" =>
        /\ ~narc.header.fat.some =>
              /\ number_of_files(narc.header) = 0
              /\ ret.res = Err("FatBlockNotFound", 0)
        /\ (narc.header.fat.some /\ ret.index >= number_of_files(narc.header)) =>
              ret.res = Err("FileNotFound", ret.index)
        /\ (narc.header.fat.some /\ ret.index < number_of_files(narc.header)
              /\ ~narc.header.files.some) =>
              ret.res = Err("FimgBlockNotFound", 0)

\* C2, the effect: a get that fails with one of the three errors leaves the
\* handle where it was (nothing is sought or read) and the header as it was.
C2_NoEffect ==
    (ret'.op = "get_file" /\ ret'.res.tag = "Err" /\ ret'.res.err \in NoReadErrors)
        => (pos' = pos /\ narc' = narc /\ file' = file)

\* C2: the error of get(index) is selected by FAT presence, then the index,
\* then image presence, and none of the three errors reads or changes anything.
C2_ErrorSelection == []C2_Selection /\ [][C2_NoEffect]_vars

\* C2 witness: on an archive with a FAT of two members and no image block,
\* get(0) fails with MissingImage after get(2) failed with MemberNotFound(2)
C2_Witness ==
    /\ ret.op = "get_file"
    /\ narc.header.fat.some
    /\ ~narc.header.files.some
    /\ number_of_files(narc.header) = 2
    /\ ret.index = 0
    /\ ret.res = Err("FimgBlockNotFound", 0)
    /\ first[2] = Err("FileNotFound", 2)

\* C3: the k-th call of next() on a fresh iterator yields what get(k) gives for
\* k < count() and end-of-sequence for every later call; the index advances by
\* one per item whether the item is bytes or an error, and MemberNotFound is
\* never yielded.
C3_IteratorOrdered ==
    iter.live =>
        /\ iter.curr = Min(Len(yielded), number_of_files(narc.header))
        /\ \A k \in 1..Len(yielded) :
              /\ k - 1 < number_of_files(narc.header) =>
                    yielded[k] = get_file(narc.header, file, 0, overflow_checks, k - 1).res
              /\ k - 1 >= number_of_files(narc.header) => yielded[k] = None
              /\ yielded[k].err # "FileNotFound"

\* C3 witness: an iterator over two members has yielded an error for member
\* 0, the bytes of member 1, and then end-of-sequence twice
C3_Witness ==
    /\ iter.live
    /\ number_of_files(narc.header) = 2
    /\ Len(yielded) = 4
    /\ yielded[1].tag = "Err"
    /\ yielded[2] = Ok(<<222, 173, 190, 239>>)
    /\ yielded[3] = None
    /\ yielded[4] = None

(***************************************************************************)
(* The area-light decoder as a state machine: one step per line of         *)
(* parse_string's loop, then the loader's fix().                           *)
(***************************************************************************)
InitLight ==
    /\ \E t \in Texts : lines = str_lines(t)
    /\ line_no = 0
    /\ current_block_line = "EndTime"
    /\ current_block = DefaultBlock
    /\ blocks = <<>>
    /\ al_ret = NoLightRet
    /\ area_light = <<>>
    /\ fix_count = 0
    /\ NarcIdle
    /\ AnimIdle
    /\ MatShpIdle
    /\ MoreIdle

Parsing == al_ret.tag = "Pending" /\ line_no < Len(lines)
Line == lines[line_no + 1]

\* an empty line skipped in every state
parse_empty_line_skips ==
    /\ Parsing
    /\ Line = ""
    /\ line_no' = line_no + 1
    /\ UNCHANGED <<lines, current_block_line, current_block, blocks, al_ret, area_light,
                   fix_count, notLight>>

\* an empty line: skipped between blocks, an error inside a block
parse_empty_line ==
    /\ Parsing
    /\ Line = ""
    /\ IF current_block_line = "EndTime"
       THEN /\ line_no' = line_no + 1
            /\ UNCHANGED al_ret
       ELSE /\ al_ret' = [tag |-> "Err", blocks |-> <<>>, err |-> EarlyEmptyLine(line_no)]
            /\ UNCHANGED line_no
    /\ UNCHANGED <<lines, current_block_line, current_block, blocks, area_light,
                   fix_count, notLight>>

\* the line "EOF" with the block being read kept
parse_eof_line_keeps_partial ==
    /\ Parsing
    /\ Line = "EOF"
    /\ al_ret' = [tag |-> "Ok",
                  blocks |-> IF current_block_line = "EndTime" THEN blocks
                             ELSE Append(blocks, current_block),
                  err |-> NoLightErr]
    /\ area_light' = al_ret'.blocks
    /\ UNCHANGED <<lines, line_no, current_block_line, current_block, blocks,
                   fix_count, notLight>>

\* the line "EOF": the loop is left and the blocks are returned
parse_eof_line ==
    /\ Parsing
    /\ Line = "EOF"
    /\ al_ret' = [tag |-> "Ok", blocks |-> blocks, err |-> NoLightErr]
    /\ area_light' = blocks
    /\ UNCHANGED <<lines, line_no, current_block_line, current_block, blocks,
                   fix_count, notLight>>

\* the end of an iteration that goes on with the finished block instead of a
\* default one
advance_keeps_block(r, line, b, bs) ==
    IF ~r.ok
    THEN [ok |-> FALSE, err |-> r.err, line |-> line, block |-> b, blocks |-> bs]
    ELSE IF next(line) = "End"
    THEN [ok |-> TRUE, err |-> NoLightErr, line |-> "EndTime", block |-> r.block,
          blocks |-> Append(bs, r.block)]
    ELSE [ok |-> TRUE, err |-> NoLightErr, line |-> next(line), block |-> r.block,
          blocks |-> bs]

\* the end of an iteration of parse_string's loop, given the result r of the
\* match: the error, or the machine advanced and a finished block appended
advance(r, line, b, bs) ==
    IF ~r.ok
    THEN [ok |-> FALSE, err |-> r.err, line |-> line, block |-> b, blocks |-> bs]
    ELSE IF next(line) = "End"
    THEN [ok |-> TRUE, err |-> NoLightErr, line |-> "EndTime", block |-> DefaultBlock,
          blocks |-> Append(bs, r.block)]
    ELSE [ok |-> TRUE, err |-> NoLightErr, line |-> next(line), block |-> r.block,
          blocks |-> bs]

\* an iteration that leaves the machine in the state End after the last
\* line of a block
parse_string_step_no_reset(text, line, n, b, bs) ==
    IF ~parse_block_line(text, line, n, b).ok
    THEN [ok |-> FALSE, err |-> parse_block_line(text, line, n, b).err, line |-> line,
          block |-> b, blocks |-> bs]
    ELSE [ok |-> TRUE, err |-> NoLightErr, line |-> next(line),
          block |-> parse_block_line(text, line, n, b).block, blocks |-> bs]

\* one iteration of parse_string on line `text` in state `line` with block b
\* and the completed blocks bs
parse_string_step(text, line, n, b, bs) ==
    advance(parse_block_line(text, line, n, b), line, b, bs)

\* the variables after an iteration with outcome r
iteration(r) ==
    IF r.ok
    THEN /\ current_block_line' = r.line
         /\ current_block' = r.block
         /\ blocks' = r.blocks
         /\ line_no' = line_no + 1
         /\ UNCHANGED al_ret
    ELSE /\ al_ret' = [tag |-> "Err", blocks |-> <<>>, err |-> r.err]
         /\ UNCHANGED <<current_block_line, current_block, blocks, line_no>>

\* any other line: parsed according to the state of the block machine
parse_line ==
    /\ Parsing
    /\ Line # ""
    /\ Line # "EOF"
    /\ iteration(parse_string_step(Line, current_block_line, line_no, current_block, blocks))
    /\ UNCHANGED <<lines, area_light, fix_count, notLight>>

\* the text has no more lines: the blocks are returned
parse_end ==
    /\ al_ret.tag = "Pending"
    /\ line_no = Len(lines)
    /\ al_ret' = [tag |-> "Ok", blocks |-> blocks, err |-> NoLightErr]
    /\ area_light' = blocks
    /\ UNCHANGED <<lines, line_no, current_block_line, current_block, blocks,
                   fix_count, notLight>>

\* PlatLoader::read_area_lights: area_light.fix()
fix_call ==
    /\ al_ret.tag = "Ok"
    /\ fix_count < MaxFix
    /\ area_light' = fix(area_light)
    /\ fix_count' = fix_count + 1
    /\ UNCHANGED <<lines, line_no, current_block_line, current_block, blocks, al_ret,
                   notLight>>

NextLight ==
    \/ parse_empty_line
    \/ parse_eof_line
    \/ parse_line
    \/ parse_end
    \/ fix_call

SpecLight == InitLight /\ [][NextLight]_vars

(***************************************************************************)
(* Properties of the area-light decoder.                                   *)
(***************************************************************************)
\* the number of non-empty lines among the first n lines of the text
NonEmptyBefore(n) == Cardinality({ k \in 1..n : lines[k] # "" })

\* once parse_string has returned, its result and its position stay
Returned == al_ret.tag # "Pending" => (al_ret' = al_ret /\ line_no' = line_no)

C4_EofStep ==
    (Parsing /\ Line = "EOF") =>
        /\ al_ret' = [tag |-> "Ok", blocks |-> blocks, err |-> NoLightErr]
        /\ Len(al_ret'.blocks) = NonEmptyBefore(line_no) \div 9
        /\ line_no' = line_no

\* C4: a line equal to "EOF" ends the parse with success in whatever state
\* the block machine is: the result is the blocks completed before that line
\* (one per nine non-empty lines, the block being read is not among them), and
\* no line after it is read: the result and the position never change again.
C4_EofEndsParse == [][C4_EofStep /\ Returned]_vars

\* "EOF" met while the second block is being read, before a malformed line
C4_Witness ==
    /\ al_ret.tag = "Ok"
    /\ line_no + 2 <= Len(lines)
    /\ lines[line_no + 1] = "EOF"
    /\ lines[line_no + 2] = "x,y"
    /\ current_block_line = "Light2"
    /\ Len(al_ret.blocks) = 1
    /\ current_block # DefaultBlock

C5_EmptyStep ==
    (Parsing /\ Line = "") =>
        IF current_block_line = "EndTime"
        THEN /\ line_no' = line_no + 1
             /\ UNCHANGED <<current_block_line, current_block, blocks, al_ret>>
        ELSE al_ret' = [tag |-> "Err", blocks |-> <<>>, err |-> EarlyEmptyLine(line_no)]

C5_Skipped ==
    /\ \A k \in 1..line_no : lines[k] = "" => NonEmptyBefore(k) % 9 = 0
    /\ (al_ret.tag = "Err" /\ al_ret.err.kind = "EarlyEmptyLine") =>
           /\ lines[al_ret.err.line_no + 1] = ""
           /\ NonEmptyBefore(al_ret.err.line_no) % 9 # 0
           /\ al_ret.blocks = <<>>

\* C5: an empty line is skipped, leaving state, block and block list as they
\* are, exactly when the machine is in EndTime (a whole number of blocks has
\* been read); in each other state the parse fails with EarlyEmptyLine of that
\* line's number and returns no blocks.
C5_EmptyLine == []C5_Skipped /\ [][C5_EmptyStep]_vars

\* an empty line between two blocks was skipped, a later one inside the
\* second block failed the parse
C5_Witness ==
    /\ al_ret.tag = "Err"
    /\ al_ret.err.kind = "EarlyEmptyLine"
    /\ al_ret.err.line_no > 10
    /\ lines[10] = ""
    /\ current_block_line = "AmbientReflectColor"

\* the states of the light lines and of the colour lines
LightLines == {"Light0", "Light1", "Light2", "Light3"}
ColorLines == {"DiffuseReflectColor", "AmbientReflectColor", "SpecularReflectColor",
               "EmissionColor"}

\* the from_str result of the field at zero-based position i of a line read
\* in state S
FieldResult(fields, S, i) ==
    IF S = "EndTime"
    THEN [ok |-> parse_u32(fields[i + 1]).ok, cause |-> parse_u32(fields[i + 1]).cause]
    ELSE IF S \in LightLines /\ i >= 4
    THEN [ok |-> parse_i16(fields[i + 1]).ok, cause |-> parse_i16(fields[i + 1]).cause]
    ELSE [ok |-> parse_u8(fields[i + 1]).ok, cause |-> parse_u8(fields[i + 1]).cause]

\* the zero-based positions lo..hi of the fields present that hold no number
BadFields(fields, S, lo, hi) ==
    { i \in lo..hi : i < Len(fields) /\ ~FieldResult(fields, S, i).ok }

FirstOf(is) == CHOOSE i \in is : \A j \in is : i <= j

\* the number of fields state S requires of a line
Required(fields, S) ==
    IF S \in LightLines THEN (IF fields[1] = "1" THEN 7 ELSE 1)
    ELSE IF S \in ColorLines THEN 3
    ELSE 1

\* the numeric fields of a line read in state S
Numeric(fields, S) ==
    IF S \in LightLines THEN (IF fields[1] = "1" THEN 1..6 ELSE {})
    ELSE IF S \in ColorLines THEN 0..2
    ELSE {0}

\* a step that reads a line of a block
BlockLineStep == Parsing /\ Line # "" /\ Line # "EOF"

\* the statement without an order between the two errors: too few fields is
\* NotEnoughParameters, otherwise a bad number is MalformedLineParameter
C6_FewFieldsFirst ==
    [][BlockLineStep =>
         LET fields == split(Line)
             S == current_block_line
             bad == { i \in Numeric(fields, S) : i < Len(fields)
                                                  /\ ~FieldResult(fields, S, i).ok }
         IN /\ Len(fields) < Required(fields, S) =>
                   al_ret' = [tag |-> "Err", blocks |-> <<>>,
                              err |-> NotEnoughParameters(S, line_no)]
            /\ (Len(fields) >= Required(fields, S) /\ bad # {}) =>
                   \E i \in bad :
                       al_ret' = [tag |-> "Err", blocks |-> <<>>,
                                  err |-> MalformedLineParameter(S, line_no, i,
                                              FieldResult(fields, S, i).cause)]]_vars

\* the error of the group of fields lo..hi (zero-based): the fields are
\* counted, then parsed in order
GroupError(fields, S, n, lo, hi) ==
    IF Len(fields) < hi + 1 THEN NotEnoughParameters(S, n)
    ELSE IF BadFields(fields, S, lo, hi) # {}
    THEN MalformedLineParameter(S, n, FirstOf(BadFields(fields, S, lo, hi)),
             FieldResult(fields, S, FirstOf(BadFields(fields, S, lo, hi))).cause)
    ELSE NoLightErr

\* the error of a line read in state S, NoLightErr when it has none
LineError(fields, S, n) ==
    IF S = "EndTime" THEN GroupError(fields, S, n, 0, 0)
    ELSE IF S \in ColorLines THEN GroupError(fields, S, n, 0, 2)
    ELSE IF fields[1] # "1" THEN NoLightErr
    ELSE IF GroupError(fields, S, n, 1, 3) # NoLightErr
    THEN GroupError(fields, S, n, 1, 3)
    ELSE GroupError(fields, S, n, 4, 6)

C6_ErrorStep ==
    BlockLineStep =>
        IF LineError(split(Line), current_block_line, line_no) = NoLightErr
        THEN al_ret' = al_ret /\ line_no' = line_no + 1
        ELSE al_ret' = [tag |-> "Err", blocks |-> <<>>,
                        err |-> LineError(split(Line), current_block_line, line_no)]

\* C6: a non-empty, non-EOF line read in state S fails exactly as follows.
\* Its fields are taken in groups: the EndTime field 0; the colour fields 0..2
\* of a colour line; the colour fields 1..3 and then the direction fields 4..6
\* of a valid light line.  A group with a field missing fails with
\* NotEnoughParameters(S, line_no), whatever its fields hold; a complete group
\* fails with MalformedLineParameter(S, line_no, i, cause) for its first field
\* i (zero-based position in the line) that is no number; the first failing
\* group decides.  A line with no failing group is accepted.
C6_LineErrors == [][C6_ErrorStep]_vars

\* a valid light line of four fields whose first colour field is no number:
\* MalformedLineParameter, not NotEnoughParameters
C6_Witness ==
    /\ al_ret.tag = "Err"
    /\ lines[line_no + 1] = "1,x,3,4"
    /\ current_block_line = "Light1"
    /\ al_ret.err = MalformedLineParameter("Light1", line_no, 1, "InvalidDigit")
    /\ line_no > 0

\* the direction component v after fix
Clamped(v) == Min(Max(v, -4096), 4096)

FixedLight(l) ==
    IF l.some
    THEN [some |-> TRUE, color |-> l.color,
          direction |-> [x |-> Clamped(l.direction.x), y |-> Clamped(l.direction.y),
                         z |-> Clamped(l.direction.z)]]
    ELSE l

FixedBlock(b) ==
    [end_time |-> b.end_time,
     light_0 |-> FixedLight(b.light_0), light_1 |-> FixedLight(b.light_1),
     light_2 |-> FixedLight(b.light_2), light_3 |-> FixedLight(b.light_3),
     diffuse_reflect_color |-> b.diffuse_reflect_color,
     ambient_reflect_color |-> b.ambient_reflect_color,
     specular_reflect_color |-> b.specular_reflect_color,
     emission_color |-> b.emission_color]

\* C7: after fix has run, once or more, every direction component of every
\* present light of every parsed block is min(max(raw, -4096), 4096), and
\* absent lights, light colours, end_time and the four colours of the block
\* are as parsed; before fix runs the blocks are as parsed.
C7_FixClamps ==
    al_ret.tag = "Ok" =>
        /\ Len(area_light) = Len(al_ret.blocks)
        /\ \A k \in 1..Len(area_light) :
               area_light[k] = IF fix_count = 0 THEN al_ret.blocks[k]
                               ELSE FixedBlock(al_ret.blocks[k])

\* fix applied twice to a block with components below -1.0 and above 1.0
C7_Witness ==
    /\ al_ret.tag = "Ok"
    /\ fix_count = 2
    /\ Len(area_light) = 2
    /\ al_ret.blocks[2].light_0.direction = DsVec(-5000, 4096, -4097)
    /\ area_light[2].light_0.direction = DsVec(-4096, 4096, -4096)
    /\ area_light[2].light_2.direction = DsVec(4096, -4096, 4096)
    /\ ~area_light[2].light_1.some

\* the text of the scenario: nine lines of a block, then EOF
ScenarioLines == BlockA \o <<"EOF">>

ScenarioBlock(x) ==
    [end_time |-> U32(43200),
     light_0 |-> SomeLight(DsRgb(31, 31, 31), DsVec(x, 0, 0)),
     light_1 |-> NoLight, light_2 |-> NoLight, light_3 |-> NoLight,
     diffuse_reflect_color |-> DsRgb(10, 10, 10),
     ambient_reflect_color |-> DsRgb(5, 5, 5),
     specular_reflect_color |-> DsRgb(0, 0, 0),
     emission_color |-> DsRgb(0, 0, 0)]

\* the scenario with the direction of light_0 clamped to 1.0 (4096) on x
C8_ScenarioClampedToOne ==
    (lines = ScenarioLines /\ fix_count >= 1) => area_light = << ScenarioBlock(4096) >>

\* C8: decoding and fixing the scenario text gives one block with end_time
\* 43200, light_0 present with colour (31,31,31) and direction bits
\* (1000, 0, 0), which is 1000/4096 on x and inside [-1.0, 1.0], so fix leaves
\* it; lights 1 to 3 absent, diffuse (10,10,10), ambient (5,5,5), specular and
\* emission (0,0,0).
C8_Scenario ==
    (lines = ScenarioLines /\ fix_count >= 1) =>
        /\ al_ret.tag = "Ok"
        /\ area_light = << ScenarioBlock(1000) >>

C8_Witness ==
    /\ lines = ScenarioLines
    /\ fix_count = 1
    /\ Len(area_light) = 1
    /\ area_light[1].light_0.direction.x = 1000

(***************************************************************************)
(* The animation-list decoder applied to a list.                           *)
(***************************************************************************)
InitAnim ==
    /\ anim_bytes \in AnimLists
    /\ anim_ret = NoAnimRet
    /\ NarcIdle
    /\ LightIdle
    /\ MatShpIdle
    /\ MoreIdle

anim_parse_bytes ==
    /\ anim_ret.tag = "Pending"
    /\ anim_ret' = MapPropAnimationList_parse_bytes(anim_bytes)
    /\ UNCHANGED <<anim_bytes, notAnim>>

NextAnim == anim_parse_bytes

SpecAnim == InitAnim /\ [][NextAnim]_vars

\* the u32 stored at the 0-based offset off of the list
IdAt(off) ==
    [lo |-> anim_bytes[off + 1] + 256 * anim_bytes[off + 2],
     hi |-> anim_bytes[off + 3] + 256 * anim_bytes[off + 4]]

\* the ids the list holds in full after its header, four at most
OnDiskIds == [k \in 1..Min(4, (Len(anim_bytes) - 4) \div 4) |-> IdAt(4 * k)]

Sentinels == { k \in 1..Len(OnDiskIds) : OnDiskIds[k] = [hi |-> 65535, lo |-> 65535] }

FirstSentinel == CHOOSE k \in Sentinels : \A j \in Sentinels : k <= j

\* C9: whenever the decoder returns a list, its ids are the on-disk ids before
\* the first 0xFFFFFFFF, in order: all four when none is 0xFFFFFFFF, and
\* otherwise none from the first 0xFFFFFFFF on, whatever the later ids are.
\* The result has at most four ids and never 0xFFFFFFFF.  A list that holds
\* its four ids in full is always decoded.
C9_IdsBeforeSentinel ==
    /\ anim_ret.tag = "Ok" =>
           /\ Sentinels # {} \/ Len(OnDiskIds) = 4
           /\ anim_ret.map_prop_animation_ids =
                  IF Sentinels = {} THEN OnDiskIds
                  ELSE SubSeq(OnDiskIds, 1, FirstSentinel - 1)
           /\ Len(anim_ret.map_prop_animation_ids) <= 4
           /\ \A k \in 1..Len(anim_ret.map_prop_animation_ids) :
                  anim_ret.map_prop_animation_ids[k] # [hi |-> 65535, lo |-> 65535]
    /\ (anim_ret.tag # "Pending" /\ Len(OnDiskIds) = 4) => anim_ret.tag = "Ok"

\* ids 0xFFFF, 0xFFFFFFFF, 258, 0 on disk: only the first is returned
C9_Witness ==
    /\ anim_ret.tag = "Ok"
    /\ OnDiskIds = << [hi |-> 0, lo |-> 65535], [hi |-> 65535, lo |-> 65535],
                      [hi |-> 0, lo |-> 258], [hi |-> 0, lo |-> 0] >>
    /\ anim_ret.map_prop_animation_ids = << [hi |-> 0, lo |-> 65535] >>

(***************************************************************************)
(* The material-shapes decoder applied to a file.                          *)
(***************************************************************************)
InitMatShp ==
    /\ matshp_bytes \in MatShpFiles
    /\ matshp_ret = NoMatShpRet
    /\ overflow_checks \in BOOLEAN
    /\ NarcReaderIdle
    /\ LightIdle
    /\ AnimIdle
    /\ MoreIdle

matshp_parse_bytes ==
    /\ matshp_ret.tag = "Pending"
    /\ matshp_ret' = MapPropMaterialShapes_parse_bytes(matshp_bytes, overflow_checks)
    /\ UNCHANGED <<matshp_bytes, notMatShp>>

NextMatShp == matshp_parse_bytes

SpecMatShp == InitMatShp /\ [][NextMatShp]_vars

\* the u16 stored at the 0-based offset off of the file
WordAt(off) == matshp_bytes[off + 1] + 256 * matshp_bytes[off + 2]

\* the file's locator k and entry j of its ids table, counted from 1 and 0
LocatorCount(k) == WordAt(4 * k)
LocatorIndex(k) == WordAt(4 * k + 2)
TableEntry(j) ==
    [material_id |-> WordAt(4 + 4 * WordAt(0) + 4 * j),
     shape_id |-> WordAt(4 + 4 * WordAt(0) + 4 * j + 2)]

\* C10: whenever the decoder returns, the output has one slot per locator, in
\* locator order; the slot of a locator with count 0 is absent, and the slot of
\* a locator with count > 0 holds the locator's index as ids_index and the
\* entries index .. index + count - 1 of the ids table, in order.
C10_SlotPerLocator ==
    matshp_ret.tag = "Ok" =>
        /\ Len(matshp_ret.val) = WordAt(0)
        /\ \A k \in 1..Len(matshp_ret.val) :
               IF LocatorCount(k) = 0 THEN ~matshp_ret.val[k].some
               ELSE /\ matshp_ret.val[k].some
                    /\ matshp_ret.val[k].ids_index = LocatorIndex(k)
                    /\ Len(matshp_ret.val[k].ids) = LocatorCount(k)
                    /\ LocatorIndex(k) + LocatorCount(k) <= WordAt(2)
                    /\ \A j \in 1..LocatorCount(k) :
                           matshp_ret.val[k].ids[j] = TableEntry(LocatorIndex(k) + j - 1)

\* two locators: an empty one, then entries 1 and 2 of a table of three
C10_Witness ==
    /\ matshp_ret.tag = "Ok"
    /\ Len(matshp_ret.val) = 2
    /\ ~matshp_ret.val[1].some
    /\ matshp_ret.val[2] =
           [some |-> TRUE, ids_index |-> 1,
            ids |-> << [material_id |-> 7, shape_id |-> 8],
                       [material_id |-> 9, shape_id |-> 10] >>]

\* the entries of the file's ids table, and the entries the output slots hold
TableIds == { TableEntry(j) : j \in 0..(WordAt(2) - 1) }
SlotIds ==
    UNION { { matshp_ret.val[k].ids[j] : j \in 1..Len(matshp_ret.val[k].ids) } :
            k \in 1..Len(matshp_ret.val) }

\* the positions of the ids table that a non-empty locator covers
CoveredPositions ==
    UNION { LocatorIndex(k)..(LocatorIndex(k) + LocatorCount(k) - 1) :
            k \in { i \in 1..WordAt(0) : LocatorCount(i) > 0 } }

\* the union of the slots' ids is the whole ids table
C11_UnionIsTable == matshp_ret.tag = "Ok" => SlotIds = TableIds

\* C11: for every file that decodes, the ids of the output slots are entries of
\* the ids table, namely the entries that some non-empty locator covers; an
\* entry no locator covers is in no slot, and absent slots hold no ids.
C11_UnionIsCoveredTable ==
    matshp_ret.tag = "Ok" =>
        /\ SlotIds = { TableEntry(j) : j \in CoveredPositions }
        /\ SlotIds \subseteq TableIds
        /\ \A k \in 1..Len(matshp_ret.val) :
               ~matshp_ret.val[k].some => matshp_ret.val[k].ids = <<>>

\* a table of three entries of which the one locator covers the first
C11_Witness ==
    /\ matshp_ret.tag = "Ok"
    /\ WordAt(0) = 1
    /\ WordAt(2) = 3
    /\ SlotIds = { [material_id |-> 5, shape_id |-> 6] }
    /\ Cardinality(TableIds) = 3

\* C12: the decoder returns a value or a typed error for every buffer and
\* never aborts; a non-empty locator whose index + count passes the end of
\* the ids table, or 65535, gives an error value.
C12_NeverAborts ==
    /\ matshp_ret.tag \in {"Pending", "Ok", "Err"}
    /\ (matshp_ret.tag # "Pending" /\ Len(matshp_bytes) >= 4 + 4 * WordAt(0)
        /\ \E k \in 1..WordAt(0) :
               LocatorCount(k) > 0 /\ LocatorIndex(k) + LocatorCount(k) > WordAt(2))
           => matshp_ret.tag = "Err"

(***************************************************************************)
(* The BDHC decoder (sinjoh_plat/src/bdhc.rs).                             *)
(***************************************************************************)
\* 0x43484442
BDHC_MAGIC == [hi |-> 17224, lo |-> 17474]
BDHC_HEADER_SIZE == 12
BDHC_POINT_SIZE == 8
BDHC_PLATE_SIZE == 8
BDHC_STRIP_SIZE == 8
DS_FIXED_32_SIZE == 4
DS_VEC_FIXED_32_SIZE == DS_FIXED_32_SIZE * 3

\* u16::from_le_bytes and u32::from_le_bytes of the bytes at a 0-based offset;
\* a DsFixed32 keeps the 32 bits it was read from
u16_from_le_bytes(b, off) == b[off + 1] + 256 * b[off + 2]
u32_from_le_bytes(b, off) ==
    [hi |-> u16_from_le_bytes(b, off + 2), lo |-> u16_from_le_bytes(b, off)]

DsVecFixed32_new(b, off) ==
    [x |-> u32_from_le_bytes(b, off),
     y |-> u32_from_le_bytes(b, off + 4),
     z |-> u32_from_le_bytes(b, off + 8)]

BdhcHeader_from_bytes(b) ==
    [points_count |-> u16_from_le_bytes(b, 0),
     normals_count |-> u16_from_le_bytes(b, 2),
     constants_count |-> u16_from_le_bytes(b, 4),
     plates_count |-> u16_from_le_bytes(b, 6),
     strips_count |-> u16_from_le_bytes(b, 8),
     access_list_count |-> u16_from_le_bytes(b, 10)]

BdhcPoint_from_bytes(b) ==
    [x |-> u32_from_le_bytes(b, 0), z |-> u32_from_le_bytes(b, 4)]

BdhcPlate_from_bytes(b) ==
    [first_point_index |-> u16_from_le_bytes(b, 0),
     second_point_index |-> u16_from_le_bytes(b, 2),
     normal_index |-> u16_from_le_bytes(b, 4),
     constant_index |-> u16_from_le_bytes(b, 6)]

BdhcStrip_from_bytes(b) ==
    [scanline |-> u32_from_le_bytes(b, 0),
     access_list_element_count |-> u16_from_le_bytes(b, 4),
     access_list_start_index |-> u16_from_le_bytes(b, 6)]

\* a loop `for _ in 0..count { reader.read_exact(&mut [0; size])?; push }`
\* that starts at position p: the raw elements, or the failure of the first
\* read that passes the end of the buffer
read_elems(f, p, count, size) ==
    IF count = 0 \/ p + count * size <= Len(f)
    THEN [ok |-> TRUE,
          elems |-> [k \in 1..count |->
                        SubSeq(f, p + (k - 1) * size + 1, p + k * size)],
          pos |-> p + count * size]
    ELSE [ok |-> FALSE, elems |-> <<>>, pos |-> p]

NoBdhc == [points |-> <<>>, normals |-> <<>>, constants |-> <<>>,
           plates |-> <<>>, strips |-> <<>>, access_list |-> <<>>]

BdhcErr(e) == [tag |-> "Err", err |-> e, val |-> NoBdhc]

\* the six sections, read one after the other from position p
bdhc_sections(f, h, p) ==
    LET points == read_elems(f, p, h.points_count, BDHC_POINT_SIZE)
        normals == read_elems(f, points.pos, h.normals_count, DS_VEC_FIXED_32_SIZE)
        constants == read_elems(f, normals.pos, h.constants_count, DS_FIXED_32_SIZE)
        plates == read_elems(f, constants.pos, h.plates_count, BDHC_PLATE_SIZE)
        strips == read_elems(f, plates.pos, h.strips_count, BDHC_STRIP_SIZE)
        access_list == read_elems(f, strips.pos, h.access_list_count, 2)
    IN IF ~(points.ok /\ normals.ok /\ constants.ok /\ plates.ok /\ strips.ok
            /\ access_list.ok)
       THEN BdhcErr("ReadError")
       ELSE [tag |-> "Ok", err |-> "",
             val |-> [points |-> [k \in 1..h.points_count |->
                                     BdhcPoint_from_bytes(points.elems[k])],
                      normals |-> [k \in 1..h.normals_count |->
                                      DsVecFixed32_new(normals.elems[k], 0)],
                      constants |-> [k \in 1..h.constants_count |->
                                        u32_from_le_bytes(constants.elems[k], 0)],
                      plates |-> [k \in 1..h.plates_count |->
                                     BdhcPlate_from_bytes(plates.elems[k])],
                      strips |-> [k \in 1..h.strips_count |->
                                     BdhcStrip_from_bytes(strips.elems[k])],
                      access_list |-> [k \in 1..h.access_list_count |->
                                          u16_from_le_bytes(access_list.elems[k], 0)]]]

Bdhc_parse_bytes(f) ==
    IF ~read_u32_le(f, 0).ok THEN BdhcErr("ReadError")
    ELSE IF read_u32_le(f, 0).val # BDHC_MAGIC THEN BdhcErr("WrongBdhcMagic")
    ELSE IF ~read_exact(f, 4, BDHC_HEADER_SIZE).ok THEN BdhcErr("ReadError")
    ELSE bdhc_sections(f, BdhcHeader_from_bytes(read_exact(f, 4, BDHC_HEADER_SIZE).bytes),
                       4 + BDHC_HEADER_SIZE)

(***************************************************************************)
(* The land-data decoder (sinjoh_plat/src/land_data.rs).                   *)
(***************************************************************************)
TERRAIN_ATTRIBUTES_ELEM_SIZE == 2
MAP_PROPS_ELEM_SIZE == 48
LAND_DATA_HEADER_SIZE == 16
MAP_TILES_COUNT_X == 32
MAP_TILES_COUNT_Y == 32
MAP_TILES_COUNT == MAP_TILES_COUNT_X * MAP_TILES_COUNT_Y

\* raw & 0x00FF and (raw & 0x8000) != 0 of a u16
TerrainAttributes_from_raw(raw_value) ==
    [tile_behavior |-> raw_value % 256,
     has_collision |-> (raw_value \div 32768) % 2 = 1]

MapPropInstance_from_bytes(b) ==
    [map_prop_model_id |-> u32_from_le_bytes(b, 0),
     position |-> DsVecFixed32_new(b, 4),
     rotation |-> DsVecFixed32_new(b, 16),
     scale |-> DsVecFixed32_new(b, 28),
     dummy |-> <<u32_from_le_bytes(b, 40), u32_from_le_bytes(b, 44)>>]

parse_terrain_attributes(f, p, terrain_attributes_count) ==
    LET r == read_elems(f, p, terrain_attributes_count, 2)
    IN [ok |-> r.ok,
        val |-> [k \in 1..Len(r.elems) |->
                    TerrainAttributes_from_raw(u16_from_le_bytes(r.elems[k], 0))]]

parse_map_props(f, p, map_props_count) ==
    LET r == read_elems(f, p, map_props_count, MAP_PROPS_ELEM_SIZE)
    IN [ok |-> r.ok,
        val |-> [k \in 1..Len(r.elems) |-> MapPropInstance_from_bytes(r.elems[k])]]

LandErr(e) == [tag |-> "Err", err |-> e, val |-> <<>>]

\* the four sections read one after the other, each where the parser of the
\* section before stopped
land_sections_contiguous(f, terrain_attributes_size, map_props_size, map_model_size, bdhc_size) ==
    LET terrain_count == terrain_attributes_size \div TERRAIN_ATTRIBUTES_ELEM_SIZE
        props_count == map_props_size \div MAP_PROPS_ELEM_SIZE
        props_pos == LAND_DATA_HEADER_SIZE + terrain_count * TERRAIN_ATTRIBUTES_ELEM_SIZE
        model_pos == props_pos + props_count * MAP_PROPS_ELEM_SIZE
        terrain_attributes == parse_terrain_attributes(f, LAND_DATA_HEADER_SIZE, terrain_count)
        map_props == parse_map_props(f, props_pos, props_count)
        map_model == read_exact(f, model_pos, map_model_size)
        raw_bdhc == read_exact(f, model_pos + map_model_size, bdhc_size)
    IN IF ~terrain_attributes.ok \/ ~map_props.ok \/ ~map_model.ok \/ ~raw_bdhc.ok
       THEN LandErr("ReadError")
       ELSE IF Bdhc_parse_bytes(raw_bdhc.bytes).tag = "Err"
       THEN LandErr("BdhcParseError")
       ELSE [tag |-> "Ok", err |-> "",
             val |-> [terrain_attributes |-> terrain_attributes.val,
                      map_props |-> map_props.val,
                      map_model |-> map_model.bytes,
                      bdhc |-> Bdhc_parse_bytes(raw_bdhc.bytes).val]]

\* parse_bytes once the four section sizes are read; every seek is absolute
\* and a seek past the end of a Cursor succeeds
land_sections(f, terrain_attributes_size, map_props_size, map_model_size, bdhc_size) ==
    LET terrain_attributes ==
            parse_terrain_attributes(f, LAND_DATA_HEADER_SIZE,
                terrain_attributes_size \div TERRAIN_ATTRIBUTES_ELEM_SIZE)
        map_props ==
            parse_map_props(f, LAND_DATA_HEADER_SIZE + terrain_attributes_size,
                map_props_size \div MAP_PROPS_ELEM_SIZE)
        map_model ==
            read_exact(f, LAND_DATA_HEADER_SIZE + terrain_attributes_size
                          + map_props_size, map_model_size)
        raw_bdhc ==
            read_exact(f, LAND_DATA_HEADER_SIZE + terrain_attributes_size
                          + map_props_size + map_model_size, bdhc_size)
    IN IF ~terrain_attributes.ok \/ ~map_props.ok \/ ~map_model.ok \/ ~raw_bdhc.ok
       THEN LandErr("ReadError")
       ELSE IF Bdhc_parse_bytes(raw_bdhc.bytes).tag = "Err"
       THEN LandErr("BdhcParseError")
       ELSE [tag |-> "Ok", err |-> "",
             val |-> [terrain_attributes |-> terrain_attributes.val,
                      map_props |-> map_props.val,
                      map_model |-> map_model.bytes,
                      bdhc |-> Bdhc_parse_bytes(raw_bdhc.bytes).val]]

\* usize::try_from(u32) cannot fail on a target whose usize has 32 bits or
\* more, so the four TooBig errors have no input
LandData_parse_bytes(f) ==
    IF ~(read_u32_le(f, 0).ok /\ read_u32_le(f, 4).ok /\ read_u32_le(f, 8).ok
         /\ read_u32_le(f, 12).ok)
    THEN LandErr("ReadError")
    ELSE land_sections(f, as_u64(read_u32_le(f, 0).val), as_u64(read_u32_le(f, 4).val),
                       as_u64(read_u32_le(f, 8).val), as_u64(read_u32_le(f, 12).val))

tile_index_to_coords(index) ==
    IF index < MAP_TILES_COUNT
    THEN [ok |-> TRUE, x |-> index % MAP_TILES_COUNT_X, y |-> index \div MAP_TILES_COUNT_X]
    ELSE [ok |-> FALSE, x |-> 0, y |-> 0]

(***************************************************************************)
(* The land-data buffers the decoder is given.                             *)
(***************************************************************************)
\* a BDHC file has 0..MaxBdhcCount elements in a section
MaxBdhcCount == 1
\* a land-data file holds 0..MaxProps map props
MaxProps == 1
\* terrain sections hold up to MaxTerrainSlack entries, or MAP_TILES_COUNT
\* entries give or take MaxTerrainSlack
MaxTerrainSlack == 1

BdhcMagicBytes == U32Bytes(BDHC_MAGIC)

\* the index fields of the elements take the value idx, the fixed-point
\* fields the bits of 4096
FixedBytes == <<0, 16, 0, 0>>

BdhcFile(points_count, plates_count, strips_count, access_count, idx) ==
    BdhcMagicBytes
    \o U16Bytes(points_count) \o U16Bytes(points_count) \o U16Bytes(points_count)
    \o U16Bytes(plates_count) \o U16Bytes(strips_count) \o U16Bytes(access_count)
    \o Concat([k \in 1..points_count |-> FixedBytes \o FixedBytes])
    \o Concat([k \in 1..points_count |-> FixedBytes \o FixedBytes \o FixedBytes])
    \o Concat([k \in 1..points_count |-> FixedBytes])
    \o Concat([k \in 1..plates_count |->
                  U16Bytes(idx) \o U16Bytes(0) \o U16Bytes(idx) \o U16Bytes(0)])
    \o Concat([k \in 1..strips_count |->
                  FixedBytes \o U16Bytes(access_count) \o U16Bytes(idx)])
    \o Concat([k \in 1..access_count |-> U16Bytes(idx)])

BdhcFiles ==
    { BdhcFile(n, m, s, a, i) :
        n \in 0..MaxBdhcCount, m \in 0..MaxBdhcCount, s \in 0..MaxBdhcCount,
        a \in 0..MaxBdhcCount, i \in 0..MaxBdhcCount }
    \cup { <<>>, <<66, 68>>, <<66, 68, 72, 0>> \o U16Bytes(0) \o U16Bytes(0),
           BdhcMagicBytes \o <<1, 0>> }

TerrainWord(k) == (k * 4099) % 65536

TerrainBytes(n) ==
    [i \in 1..(2 * n) |->
        IF i % 2 = 1 THEN TerrainWord((i + 1) \div 2) % 256
        ELSE TerrainWord(i \div 2) \div 256]

PropBytes(k) == [i \in 1..MAP_PROPS_ELEM_SIZE |-> IF i = 1 THEN k ELSE 0]

TerrainCounts ==
    (0..MaxTerrainSlack)
    \cup ((MAP_TILES_COUNT - MaxTerrainSlack)..(MAP_TILES_COUNT + MaxTerrainSlack))

\* a file of n terrain entries and m map props; pad bytes are added to the
\* terrain section, and cut bytes are missing at the end of the file
LandFile(n, pad, m, model, bdhc, cut) ==
    LET whole ==
            U32Bytes(U32(2 * n + pad)) \o U32Bytes(U32(MAP_PROPS_ELEM_SIZE * m))
            \o U32Bytes(U32(Len(model))) \o U32Bytes(U32(Len(bdhc)))
            \o TerrainBytes(n) \o [i \in 1..pad |-> 0]
            \o Concat([k \in 1..m |-> PropBytes(k)]) \o model \o bdhc
    IN SubSeq(whole, 1, Len(whole) - cut)

\* a file of the four given sections whose header declares the given sizes,
\* with the bytes `rest` after the last section
LandFileOfSizes(sizes, terrain, props, model, bdhc, rest) ==
    U32Bytes(U32(sizes[1])) \o U32Bytes(U32(sizes[2])) \o U32Bytes(U32(sizes[3]))
    \o U32Bytes(U32(sizes[4])) \o terrain \o props \o model \o bdhc \o rest

\* files whose sections are longer than their elements (3 bytes of terrain
\* for one entry, 55 bytes of props for one instance), a file with bytes
\* after the BDHC section, and files whose header declares a BDHC size two
\* bytes short of the BDHC data, or four bytes of a BDHC magic only
SizedLandFiles ==
    { LandFileOfSizes(<<3, 55, 2, Len(BdhcFile(1, 1, 1, 1, 0))>>,
                      TerrainBytes(1) \o <<0>>, PropBytes(3) \o <<1, 2, 3, 4, 5, 6, 7>>,
                      <<7, 7>>, BdhcFile(1, 1, 1, 1, 0), <<>>),
      LandFileOfSizes(<<2, 48, 0, Len(BdhcFile(1, 0, 0, 0, 0))>>,
                      TerrainBytes(1), PropBytes(3), <<>>, BdhcFile(1, 0, 0, 0, 0),
                      <<1, 2, 3>>),
      LandFileOfSizes(<<2, 0, 0, Len(BdhcFile(1, 1, 1, 1, 0)) - 2>>,
                      TerrainBytes(1), <<>>, <<>>, BdhcFile(1, 1, 1, 1, 0), <<>>),
      LandFileOfSizes(<<2, 0, 0, 4>>,
                      TerrainBytes(1), <<>>, <<>>, BdhcFile(0, 0, 0, 0, 0), <<>>) }

LandFiles ==
    { LandFile(n, pad, m, model, bdhc, cut) :
        n \in TerrainCounts, pad \in 0..1, m \in 0..MaxProps,
        model \in { <<>>, <<7, 7>> }, bdhc \in BdhcFiles, cut \in 0..1 }
    \cup { <<>>, <<0, 0, 0, 0, 0, 0, 0, 0>> }
    \cup SizedLandFiles

(***************************************************************************)
(* The land-data decoder applied to a buffer.                              *)
(***************************************************************************)
InitLand ==
    /\ land_bytes \in LandFiles
    /\ land_ret = NoLandRet
    /\ NarcIdle
    /\ LightIdle
    /\ AnimIdle
    /\ MatShpIdle
    /\ SqlIdle
    /\ ReplIdle
    /\ LoadIdle

land_parse_bytes ==
    /\ land_ret.tag = "Pending"
    /\ land_ret' = LandData_parse_bytes(land_bytes)
    /\ UNCHANGED <<land_bytes, notLand>>

NextLand == land_parse_bytes

SpecLand == InitLand /\ [][NextLand]_vars

\* C13: every land-data record the decoder returns has exactly 1024
\* terrain-attribute entries, whatever terrain size the header declares.
C13_TerrainIsWholeMap ==
    land_ret.tag = "Ok" => Len(land_ret.val.terrain_attributes) = MAP_TILES_COUNT

(***************************************************************************)
(* The map-matrix decoder (sinjoh_plat/src/map_matrix.rs).                 *)
(***************************************************************************)
\* String::from_utf8 on bytes that are ASCII or 0xFF (the bytes the inputs
\* below use): a byte of 128 or more alone is not UTF-8
from_utf8(b) == [ok |-> \A i \in 1..Len(b) : b[i] < 128, val |-> b]

MapMatrixErr(e) == [tag |-> "Err", err |-> e, val |-> <<>>]

\* Option<Vec<_>>
NoSection == [some |-> FALSE, val |-> <<>>]
SomeSection(v) == [some |-> TRUE, val |-> v]
NotRead(p) == [ok |-> TRUE, elems |-> <<>>, pos |-> p]

\* the three sections, read one after the other from position p; has_ids and
\* has_altitudes are the bytes raw_has_map_header_ids_section and
\* raw_has_altitudes_section
map_matrix_sections(f, height, width, has_ids, has_altitudes, model_name_prefix, p) ==
    LET matrix_size == height * width
        map_header_ids ==
            IF has_ids # 0 THEN read_elems(f, p, matrix_size, 2)
            ELSE NotRead(p)
        altitudes ==
            IF has_altitudes # 0
            THEN read_elems(f, map_header_ids.pos, matrix_size, 1)
            ELSE NotRead(map_header_ids.pos)
        land_data_ids == read_elems(f, altitudes.pos, matrix_size, 2)
    IN IF ~(map_header_ids.ok /\ altitudes.ok /\ land_data_ids.ok)
       THEN MapMatrixErr("ReadError")
       ELSE [tag |-> "Ok", err |-> "",
             val |-> [height |-> height,
                      width |-> width,
                      model_name_prefix |-> model_name_prefix,
                      map_header_ids |->
                          IF has_ids # 0
                          THEN SomeSection([k \in 1..matrix_size |->
                                   u16_from_le_bytes(map_header_ids.elems[k], 0)])
                          ELSE NoSection,
                      altitudes |->
                          IF has_altitudes # 0
                          THEN SomeSection([k \in 1..matrix_size |-> altitudes.elems[k][1]])
                          ELSE NoSection,
                      land_data_ids |->
                          [k \in 1..matrix_size |->
                              u16_from_le_bytes(land_data_ids.elems[k], 0)]]]

MapMatrix_parse_bytes(f) ==
    IF Len(f) < 5 THEN MapMatrixErr("ReadError")
    ELSE IF ~read_exact(f, 5, f[5]).ok THEN MapMatrixErr("ReadError")
    ELSE IF ~from_utf8(read_exact(f, 5, f[5]).bytes).ok
    THEN MapMatrixErr("ModelNamePrefixConversion")
    ELSE map_matrix_sections(f, f[1], f[2], f[3], f[4], read_exact(f, 5, f[5]).bytes,
                             5 + f[5])

\* the coordinates the other way round
map_index_to_coords_swapped(map_matrix, index) ==
    IF index < map_matrix.width * map_matrix.height
    THEN [ok |-> TRUE, x |-> index \div map_matrix.width, y |-> index % map_matrix.width]
    ELSE [ok |-> FALSE, x |-> 0, y |-> 0]

\* the u16 product of two u8 values cannot overflow
map_index_to_coords(map_matrix, index) ==
    IF index < map_matrix.width * map_matrix.height
    THEN [ok |-> TRUE, x |-> index % map_matrix.width, y |-> index \div map_matrix.width]
    ELSE [ok |-> FALSE, x |-> 0, y |-> 0]

(***************************************************************************)
(* The area-map-props decoder (sinjoh_plat/src/area_map_props.rs) and the  *)
(* area-data decoder (sinjoh_plat/src/area_data.rs).                       *)
(***************************************************************************)
AreaMapProps_parse_bytes(f) ==
    IF ~read_u16_le(f, 0).ok THEN [tag |-> "Err", err |-> "ReadError", map_props_ids |-> <<>>]
    ELSE IF ~read_elems(f, 2, read_u16_le(f, 0).val, 2).ok
    THEN [tag |-> "Err", err |-> "ReadError", map_props_ids |-> <<>>]
    ELSE [tag |-> "Ok", err |-> "",
          map_props_ids |-> [k \in 1..read_u16_le(f, 0).val |->
                                u16_from_le_bytes(f, 2 * k)]]

AreaData_from_bytes(b) ==
    [map_prop_archives_id |-> u16_from_le_bytes(b, 0),
     map_texture_archive_id |-> u16_from_le_bytes(b, 2),
     area_light_archive_id |-> u16_from_le_bytes(b, 6),
     dummy |-> u16_from_le_bytes(b, 4)]

(***************************************************************************)
(* AreaLight::parse_string as a function of the text: the loop of the      *)
(* state machine above run to its end.                                      *)
(***************************************************************************)
RECURSIVE parse_string_from(_, _, _, _, _)
parse_string_after(r, ls, n) ==
    IF r.ok THEN parse_string_from(ls, n + 1, r.line, r.block, r.blocks)
    ELSE [tag |-> "Err", blocks |-> <<>>, err |-> r.err]

parse_string_from(ls, n, line, b, bs) ==
    IF n = Len(ls) THEN [tag |-> "Ok", blocks |-> bs, err |-> NoLightErr]
    ELSE IF ls[n + 1] = ""
    THEN IF line = "EndTime" THEN parse_string_from(ls, n + 1, line, b, bs)
         ELSE [tag |-> "Err", blocks |-> <<>>, err |-> EarlyEmptyLine(n)]
    ELSE IF ls[n + 1] = "EOF" THEN [tag |-> "Ok", blocks |-> bs, err |-> NoLightErr]
    ELSE parse_string_after(parse_string_step(ls[n + 1], line, n, b, bs), ls, n)

AreaLight_parse_string(text) ==
    parse_string_from(str_lines(text), 0, "EndTime", DefaultBlock, <<>>)

(***************************************************************************)
(* The SQLite database of pokeplat_utils/src/sql: the tables that exist,   *)
(* and the rows of each table.  Every table has a primary key, so a table  *)
(* is a set of rows.  The columns that hold a fixed-point value converted   *)
(* with to_num::<f32>() are left out of the rows: they are functions of the *)
(* decoded record, and no key or constraint names them.                     *)
(***************************************************************************)
TableNames ==
    { "area_data", "area_light", "area_light_properties", "area_light_color",
      "area_map_prop", "land_data_terrain_attributes", "land_data_map_prop",
      "bdhc_point", "bdhc_normal", "bdhc_constant", "bdhc_plate", "bdhc_access_list",
      "bdhc_strip", "map_matrix", "map_matrix_header_id", "map_matrix_altitude",
      "map_matrix_land_data_id", "map_prop_animation_list",
      "map_prop_animation_list_ids", "map_prop_material_shape",
      "map_prop_material_shape_ids", "map_header" }

\* PRIMARY KEY (...) of each CREATE TABLE
PrimaryKey(t) ==
    CASE t \in { "area_data", "map_matrix", "map_prop_animation_list",
                 "map_prop_material_shape", "map_header" } -> { "id" }
      [] t = "area_light" -> { "id", "end_time" }
      [] t = "area_light_properties" ->
             { "light_id", "area_light_id", "area_light_end_time" }
      [] t = "area_light_color" -> { "kind", "area_light_id", "area_light_end_time" }
      [] t = "area_map_prop" -> { "id", "map_prop_id" }
      [] t = "land_data_terrain_attributes" -> { "land_data_id", "x", "y" }
      [] t \in { "land_data_map_prop", "bdhc_point", "bdhc_normal", "bdhc_constant",
                 "bdhc_plate", "bdhc_access_list", "bdhc_strip" } ->
             { "idx", "land_data_id" }
      [] t \in { "map_matrix_header_id", "map_matrix_altitude",
                 "map_matrix_land_data_id" } -> { "map_matrix_id", "x", "y" }
      [] t = "map_prop_animation_list_ids" ->
             { "animation_id", "map_prop_animation_list_id" }
      [] t = "map_prop_material_shape_ids" ->
             { "map_prop_material_shape_id", "material_id", "shape_id" }

ForeignKey(cols, parent, parent_cols) ==
    [cols |-> cols, parent |-> parent, parent_cols |-> parent_cols]

\* FOREIGN KEY (...) REFERENCES ... of each CREATE TABLE
ForeignKeys(t) ==
    CASE t \in { "area_light_properties", "area_light_color" } ->
             { ForeignKey(<<"area_light_id", "area_light_end_time">>, "area_light",
                          <<"id", "end_time">>) }
      [] t = "bdhc_plate" ->
             { ForeignKey(<<"first_point_idx", "land_data_id">>, "bdhc_point",
                          <<"idx", "land_data_id">>),
               ForeignKey(<<"second_point_idx", "land_data_id">>, "bdhc_point",
                          <<"idx", "land_data_id">>),
               ForeignKey(<<"normal_idx", "land_data_id">>, "bdhc_normal",
                          <<"idx", "land_data_id">>),
               ForeignKey(<<"constant_idx", "land_data_id">>, "bdhc_constant",
                          <<"idx", "land_data_id">>) }
      [] t = "bdhc_access_list" ->
             { ForeignKey(<<"plate_idx", "land_data_id">>, "bdhc_plate",
                          <<"idx", "land_data_id">>) }
      [] t = "bdhc_strip" ->
             { ForeignKey(<<"access_list_start_index", "land_data_id">>,
                          "bdhc_access_list", <<"idx", "land_data_id">>) }
      [] t \in { "map_matrix_header_id", "map_matrix_altitude",
                 "map_matrix_land_data_id" } ->
             { ForeignKey(<<"map_matrix_id">>, "map_matrix", <<"id">>) }
      [] t = "map_prop_animation_list_ids" ->
             { ForeignKey(<<"map_prop_animation_list_id">>, "map_prop_animation_list",
                          <<"id">>) }
      [] t = "map_prop_material_shape_ids" ->
             { ForeignKey(<<"map_prop_material_shape_id">>, "map_prop_material_shape",
                          <<"id">>) }
      [] OTHER -> {}

\* a database file that Connection::open has just created
EmptyDb == [tables |-> {}, rows |-> [t \in TableNames |-> {}]]

key_of(t, row) == [c \in PrimaryKey(t) |-> row[c]]

\* the parent table has a row with the key the row refers to
has_parent(db, fk, row) ==
    \E parent \in db.rows[fk.parent] :
        \A i \in 1..Len(fk.cols) : parent[fk.parent_cols[i]] = row[fk.cols[i]]

\* an INSERT of the row fails: its key is taken, or foreign keys are enforced
\* and a parent is missing (the check is immediate, also inside a transaction)
insert_fails(db, foreign_keys_on, t, row) ==
    \/ key_of(t, row) \in { key_of(t, r) : r \in db.rows[t] }
    \/ foreign_keys_on /\ \E fk \in ForeignKeys(t) : ~has_parent(db, fk, row)

\* A loop of INSERTs into one table: the rows in the order of the loop, and
\* whether the loop ends in an error of its own after the last of them.
Statements(t, rows, then_fail) == [table |-> t, rows |-> rows, then_fail |-> then_fail]

\* the rows that fail when they are inserted one after the other; no table
\* refers to itself, so a row's parents are in the database before the loop
failing_rows(db, foreign_keys_on, t, rows) ==
    IF Cardinality({ key_of(t, rows[i]) : i \in 1..Len(rows) }) = Len(rows)
    THEN { i \in 1..Len(rows) : insert_fails(db, foreign_keys_on, t, rows[i]) }
    ELSE { i \in 1..Len(rows) :
             \/ insert_fails(db, foreign_keys_on, t, rows[i])
             \/ \E j \in 1..(i - 1) : key_of(t, rows[j]) = key_of(t, rows[i]) }

SetMin(S) == CHOOSE x \in S : \A y \in S : x <= y

\* the number of rows the loop inserts before it stops
inserted_count(bad, rows) == IF bad = {} THEN Len(rows) ELSE SetMin(bad) - 1

execute_loop_upto(db, n, c) ==
    [ok |-> n = Len(c.rows) /\ ~c.then_fail,
     db |-> [db EXCEPT !.rows[c.table] = @ \cup { c.rows[i] : i \in 1..n }]]

execute_loop(db, foreign_keys_on, c) ==
    execute_loop_upto(db,
        inserted_count(failing_rows(db, foreign_keys_on, c.table, c.rows), c.rows), c)

\* the loops of a populator one after the other, up to the first error
RECURSIVE execute_all(_, _, _)
execute_rest(r, foreign_keys_on, cs) ==
    IF r.ok THEN execute_all(r.db, foreign_keys_on, cs) ELSE r

execute_all(db, foreign_keys_on, cs) ==
    IF cs = <<>> THEN [ok |-> TRUE, db |-> db]
    ELSE execute_rest(execute_loop(db, foreign_keys_on, Head(cs)), foreign_keys_on, Tail(cs))

\* create_sql_tables that creates the first of its tables only
create_sql_tables_first_only(db, ts) ==
    [ok |-> TRUE, db |-> [db EXCEPT !.tables = @ \cup { ts[1] }]]

\* CREATE TABLE for the tables ts in order: a table that exists is an error
create_sql_tables(db, ts) ==
    LET taken == { i \in 1..Len(ts) : ts[i] \in db.tables }
        n == IF taken = {} THEN Len(ts) ELSE SetMin(taken) - 1
    IN [ok |-> taken = {},
        db |-> [db EXCEPT !.tables = @ \cup { ts[i] : i \in 1..n }]]

\* PopulateSql::create_and_populate_sql_tables with auto-committed inserts
populate_after_create(r, foreign_keys_on, cs) ==
    IF r.ok THEN execute_all(r.db, foreign_keys_on, cs) ELSE r

create_and_populate_sql_tables(db, foreign_keys_on, ts, cs) ==
    populate_after_create(create_sql_tables(db, ts), foreign_keys_on, cs)

(***************************************************************************)
(* The populators of pokeplat_utils/src/sql/tables: the INSERT loops of    *)
(* each populate_sql_tables, in the order the code runs them.  The id of a *)
(* record is its position in the list, counted from 0.                     *)
(***************************************************************************)
\* tables/area_data.rs
area_data_statements(area_data) ==
    << Statements("area_data",
           [i \in 1..Len(area_data) |->
               [id |-> i - 1,
                area_map_prop_id |-> area_data[i].map_prop_archives_id,
                map_texture_id |-> area_data[i].map_texture_archive_id,
                area_light_id |-> area_data[i].area_light_archive_id,
                dummy |-> area_data[i].dummy]],
           FALSE) >>

\* tables/area_lights.rs
Lights(block) == << block.light_0, block.light_1, block.light_2, block.light_3 >>

populate_area_light_properties(light_id, area_light_id, block, light) ==
    [light_id |-> light_id, area_light_id |-> area_light_id,
     area_light_end_time |-> block.end_time,
     red |-> light.color.red, green |-> light.color.green, blue |-> light.color.blue]

populate_area_light_colors(kind, area_light_id, end_time, color) ==
    [kind |-> kind, area_light_id |-> area_light_id, area_light_end_time |-> end_time,
     red |-> color.red, green |-> color.green, blue |-> color.blue]

\* the present lights of a block, with their slots, in slot order
RECURSIVE present_lights(_, _)
present_lights(ls, slot) ==
    IF ls = <<>> THEN <<>>
    ELSE (IF Head(ls).some THEN << [slot |-> slot, light |-> Head(ls)] >> ELSE <<>>)
         \o present_lights(Tail(ls), slot + 1)

area_light_block_statements(area_light_id, block) ==
    << Statements("area_light",
           << [id |-> area_light_id, end_time |-> block.end_time] >>, FALSE),
       Statements("area_light_properties",
           [k \in 1..Len(present_lights(Lights(block), 0)) |->
               populate_area_light_properties(present_lights(Lights(block), 0)[k].slot,
                   area_light_id, block, present_lights(Lights(block), 0)[k].light)],
           FALSE),
       Statements("area_light_color",
           << populate_area_light_colors("diffuse", area_light_id, block.end_time,
                                         block.diffuse_reflect_color),
              populate_area_light_colors("ambient", area_light_id, block.end_time,
                                         block.ambient_reflect_color),
              populate_area_light_colors("specular", area_light_id, block.end_time,
                                         block.specular_reflect_color),
              populate_area_light_colors("emission", area_light_id, block.end_time,
                                         block.emission_color) >>,
           FALSE) >>

area_lights_statements(area_lights) ==
    Concat([i \in 1..Len(area_lights) |->
               Concat([j \in 1..Len(area_lights[i]) |->
                          area_light_block_statements(i - 1, area_lights[i][j])])])

\* tables/area_map_props.rs
area_map_props_statements(area_map_props) ==
    [i \in 1..Len(area_map_props) |->
        Statements("area_map_prop",
            [k \in 1..Len(area_map_props[i]) |->
                [id |-> i - 1, map_prop_id |-> area_map_props[i][k]]],
            FALSE)]

\* tables/land_data.rs: the eight populate_* functions for one record
converted_tiles(terrain_attributes) ==
    Cardinality({ i \in 1..Len(terrain_attributes) : tile_index_to_coords(i - 1).ok })

populate_land_data_terrain_attributes(land_data_id, terrain_attributes) ==
    Statements("land_data_terrain_attributes",
        [k \in 1..converted_tiles(terrain_attributes) |->
            [land_data_id |-> land_data_id,
             x |-> tile_index_to_coords(k - 1).x,
             y |-> tile_index_to_coords(k - 1).y,
             tile_behavior |-> terrain_attributes[k].tile_behavior,
             has_collision |-> terrain_attributes[k].has_collision]],
        converted_tiles(terrain_attributes) < Len(terrain_attributes))

populate_land_data_map_prop_instances(land_data_id, map_props) ==
    Statements("land_data_map_prop",
        [k \in 1..Len(map_props) |->
            [idx |-> k - 1, land_data_id |-> land_data_id,
             map_prop_id |-> map_props[k].map_prop_model_id,
             dummy_1 |-> map_props[k].dummy[1], dummy_2 |-> map_props[k].dummy[2]]],
        FALSE)

\* populate_bdhc_points, populate_bdhc_normals, populate_bdhc_constants
populate_bdhc_indexed(t, land_data_id, elems) ==
    Statements(t, [k \in 1..Len(elems) |-> [idx |-> k - 1, land_data_id |-> land_data_id]],
               FALSE)

populate_bdhc_plates(land_data_id, bdhc_plates) ==
    Statements("bdhc_plate",
        [k \in 1..Len(bdhc_plates) |->
            [idx |-> k - 1, land_data_id |-> land_data_id,
             first_point_idx |-> bdhc_plates[k].first_point_index,
             second_point_idx |-> bdhc_plates[k].second_point_index,
             normal_idx |-> bdhc_plates[k].normal_index,
             constant_idx |-> bdhc_plates[k].constant_index]],
        FALSE)

populate_bdhc_access_lists(land_data_id, bdhc_access_lists) ==
    Statements("bdhc_access_list",
        [k \in 1..Len(bdhc_access_lists) |->
            [idx |-> k - 1, land_data_id |-> land_data_id,
             plate_idx |-> bdhc_access_lists[k]]],
        FALSE)

populate_bdhc_strips(land_data_id, bdhc_strips) ==
    Statements("bdhc_strip",
        [k \in 1..Len(bdhc_strips) |->
            [idx |-> k - 1, land_data_id |-> land_data_id,
             access_list_element_count |-> bdhc_strips[k].access_list_element_count,
             access_list_start_index |-> bdhc_strips[k].access_list_start_index]],
        FALSE)

land_data_record_statements(land_data_id, land_data) ==
    << populate_land_data_terrain_attributes(land_data_id, land_data.terrain_attributes),
       populate_land_data_map_prop_instances(land_data_id, land_data.map_props),
       populate_bdhc_indexed("bdhc_point", land_data_id, land_data.bdhc.points),
       populate_bdhc_indexed("bdhc_normal", land_data_id, land_data.bdhc.normals),
       populate_bdhc_indexed("bdhc_constant", land_data_id, land_data.bdhc.constants),
       populate_bdhc_plates(land_data_id, land_data.bdhc.plates),
       populate_bdhc_access_lists(land_data_id, land_data.bdhc.access_list),
       populate_bdhc_strips(land_data_id, land_data.bdhc.strips) >>

land_data_statements(land_data) ==
    Concat([i \in 1..Len(land_data) |-> land_data_record_statements(i - 1, land_data[i])])

LandDataTables ==
    << "land_data_terrain_attributes", "land_data_map_prop", "bdhc_point", "bdhc_normal",
       "bdhc_constant", "bdhc_plate", "bdhc_access_list", "bdhc_strip" >>

\* the inserts of a failed transaction stay in the database
rollback_keeps_rows(r, db) == [ok |-> FALSE, db |-> r.db, opened |-> 1, committed |-> 0]

\* the transaction of populate_sql_tables ends without commit, and the
\* database is as it was when the transaction began
rollback(r, db) == [ok |-> FALSE, db |-> db, opened |-> 1, committed |-> 0]

\* tx.commit()
commit(r, db) == [ok |-> TRUE, db |-> r.db, opened |-> 1, committed |-> 1]

\* conn.transaction(), the loops of every record through it, tx.commit();
\* an error leaves through `?` and drops the transaction
transaction_end(r, db) == IF r.ok THEN commit(r, db) ELSE rollback(r, db)

land_data_populate_sql_tables(db, foreign_keys_on, land_data) ==
    transaction_end(execute_all(db, foreign_keys_on, land_data_statements(land_data)), db)

land_data_after_create(r, foreign_keys_on, land_data) ==
    IF r.ok THEN land_data_populate_sql_tables(r.db, foreign_keys_on, land_data)
    ELSE [ok |-> FALSE, db |-> r.db, opened |-> 0, committed |-> 0]

land_data_create_and_populate(db, foreign_keys_on, land_data) ==
    land_data_after_create(create_sql_tables(db, LandDataTables), foreign_keys_on, land_data)

\* tables/map_matrices.rs
converted_maps(map_matrix, ids) ==
    Cardinality({ i \in 1..Len(ids) : map_index_to_coords(map_matrix, i - 1).ok })

map_matrix_cells(t, column, map_matrix_id, map_matrix, ids) ==
    Statements(t,
        [k \in 1..converted_maps(map_matrix, ids) |->
            [map_matrix_id |-> map_matrix_id,
             x |-> map_index_to_coords(map_matrix, k - 1).x,
             y |-> map_index_to_coords(map_matrix, k - 1).y]
            @@ (column :> ids[k])],
        converted_maps(map_matrix, ids) < Len(ids))

map_matrix_record_statements(map_matrix_id, map_matrix) ==
    << Statements("map_matrix",
           << [id |-> map_matrix_id, height |-> map_matrix.height,
               width |-> map_matrix.width,
               model_name_prefix |-> map_matrix.model_name_prefix] >>, FALSE) >>
    \o (IF map_matrix.map_header_ids.some
        THEN << map_matrix_cells("map_matrix_header_id", "map_header_id", map_matrix_id,
                                 map_matrix, map_matrix.map_header_ids.val) >>
        ELSE <<>>)
    \o (IF map_matrix.altitudes.some
        THEN << map_matrix_cells("map_matrix_altitude", "altitude", map_matrix_id,
                                 map_matrix, map_matrix.altitudes.val) >>
        ELSE <<>>)
    \o << map_matrix_cells("map_matrix_land_data_id", "land_data_id", map_matrix_id,
                           map_matrix, map_matrix.land_data_ids) >>

map_matrices_statements(map_matrices) ==
    Concat([i \in 1..Len(map_matrices) |->
               map_matrix_record_statements(i - 1, map_matrices[i])])

\* tables/map_prop_animation_lists.rs
map_prop_animation_lists_statements(lists) ==
    Concat([i \in 1..Len(lists) |->
        << Statements("map_prop_animation_list",
               << [id |-> i - 1,
                   deferred_loading |-> lists[i].deferred_loading,
                   deferred_add_to_render_object |-> lists[i].deferred_add_to_render_object,
                   is_bicycle_slope |-> lists[i].is_bicycle_slope] >>, FALSE),
           Statements("map_prop_animation_list_ids",
               [k \in 1..Len(lists[i].map_prop_animation_ids) |->
                   [animation_id |-> lists[i].map_prop_animation_ids[k],
                    map_prop_animation_list_id |-> i - 1]],
               FALSE) >>])

\* tables/map_prop_material_shapes.rs: the slots that are Some
map_prop_material_shapes_statements(shapes) ==
    Concat([i \in 1..Len(shapes) |->
        IF ~shapes[i].some THEN <<>>
        ELSE << Statements("map_prop_material_shape",
                    << [id |-> i - 1, material_shape_ids_index |-> shapes[i].ids_index] >>,
                    FALSE),
                Statements("map_prop_material_shape_ids",
                    [k \in 1..Len(shapes[i].ids) |->
                        [map_prop_material_shape_id |-> i - 1,
                         material_id |-> shapes[i].ids[k].material_id,
                         shape_id |-> shapes[i].ids[k].shape_id]],
                    FALSE) >>])

\* tables/map_headers.rs: one row per entry of the map; the keys of a map
\* are distinct, so the order of the iteration does not show in the table
map_headers_statements(map_headers) ==
    << Statements("map_header",
           [k \in 1..Len(map_headers) |->
               [id |-> map_headers[k].id,
                area_data_archive_id |-> map_headers[k].area_data_archive_id,
                map_matrix_id |-> map_headers[k].map_matrix_id]],
           FALSE) >>

(***************************************************************************)
(* The resources the export is given: what PlatLoader::load_resources      *)
(* returns for small archives whose members all decode.                    *)
(***************************************************************************)
\* export_plat_resources runs at most MaxRuns times on the same path
MaxRuns == 2
\* a map matrix has a height and a width of 0..MaxMatrixDim
MaxMatrixDim == 2

\* a block with two lights, and the same block with the end time of BlockA
BlockC ==
    << "86400", "1,1,2,3,4096,0,0", "1,4,5,6,0,4096,0", "0,0,0,0,0,0,0", "0,0,0,0,0,0,0",
       "1,2,3", "4,5,6", "7,8,9", "3,2,1" >>

BlockA2 == << "43200" >> \o Tail(BlockC)

\* PlatLoader::read_area_lights: every member parsed, then fixed
read_area_lights(texts) ==
    [k \in 1..Len(texts) |-> fix(AreaLight_parse_string(Join(texts[k], "\n")).blocks)]

AreaLightLists ==
    { read_area_lights(ts) :
        ts \in { <<>>, << BlockA >>, << BlockA, BlockA \o BlockC >>,
                 << BlockA \o BlockA2 >> } }

\* the base resources have one file of two blocks with different end times
BaseAreaLights == read_area_lights(<< BlockA \o BlockC >>)

AreaMapPropsFile(ids) == U16Bytes(Len(ids)) \o Concat([k \in 1..Len(ids) |-> U16Bytes(ids[k])])

read_area_map_props(files) ==
    [k \in 1..Len(files) |-> AreaMapProps_parse_bytes(files[k]).map_props_ids]

AreaMapPropsLists ==
    { read_area_map_props(fs) :
        fs \in { <<>>, << AreaMapPropsFile(<<5, 6>>) >>,
                 << AreaMapPropsFile(<<>>), AreaMapPropsFile(<<5, 6, 5>>) >>,
                 << AreaMapPropsFile(<<7>>), AreaMapPropsFile(<<7>>) >> } }

BaseAreaMapProps == read_area_map_props(<< AreaMapPropsFile(<<5, 6>>) >>)

\* a BDHC file whose indices all exist, one whose plate names point, normal
\* and constant 1 of one, and one whose strip has count 0 and start index 0
\* with an empty access list
GoodBdhc == BdhcFile(1, 1, 1, 1, 0)
BadPlateBdhc == BdhcFile(1, 1, 0, 0, 1)
EmptyStripBdhc == BdhcFile(1, 1, 1, 0, 0)

read_land_data(files) == [k \in 1..Len(files) |-> LandData_parse_bytes(files[k]).val]

LandDataLists ==
    { read_land_data(fs) :
        fs \in { <<>>,
                 << LandFile(1, 0, 1, <<>>, GoodBdhc, 0) >>,
                 << LandFile(2, 0, 0, <<>>, GoodBdhc, 0),
                    LandFile(MAP_TILES_COUNT, 0, 1, <<>>, GoodBdhc, 0) >>,
                 << LandFile(1, 0, 1, <<>>, GoodBdhc, 0),
                    LandFile(MAP_TILES_COUNT + 1, 0, 0, <<>>, GoodBdhc, 0) >>,
                 << LandFile(1, 0, 1, <<>>, GoodBdhc, 0),
                    LandFile(1, 0, 0, <<>>, BadPlateBdhc, 0) >>,
                 << LandFile(1, 0, 0, <<>>, EmptyStripBdhc, 0) >> } }

BaseLandData == read_land_data(<< LandFile(1, 0, 1, <<>>, GoodBdhc, 0) >>)

\* a matrix file with the prefix "A", header ids 1.., altitudes 1.. and land
\* data ids 0..
MapMatrixFile(height, width, has_ids, has_altitudes) ==
    << height, width, has_ids, has_altitudes, 1, 65 >>
    \o (IF has_ids # 0 THEN Concat([k \in 1..(height * width) |-> U16Bytes(k)]) ELSE <<>>)
    \o (IF has_altitudes # 0 THEN [k \in 1..(height * width) |-> k] ELSE <<>>)
    \o Concat([k \in 1..(height * width) |-> U16Bytes(k - 1)])

read_map_matrices(files) == [k \in 1..Len(files) |-> MapMatrix_parse_bytes(files[k]).val]

MapMatrixLists ==
    { read_map_matrices(<< MapMatrixFile(h, w, i, a) >>) :
        h \in 0..MaxMatrixDim, w \in 0..MaxMatrixDim, i \in 0..1, a \in 0..1 }
    \cup { <<>>,
           read_map_matrices(<< MapMatrixFile(1, 2, 1, 0), MapMatrixFile(2, 1, 0, 1) >>) }

BaseMapMatrices == read_map_matrices(<< MapMatrixFile(2, 2, 1, 1) >>)

\* an animation list with the ids 258 and 0, and one that names 0 twice
read_map_prop_animation_lists(files) ==
    [k \in 1..Len(files) |-> MapPropAnimationList_parse_bytes(files[k])]

BaseMapPropAnimationLists ==
    read_map_prop_animation_lists(
        << <<1, 0, 0, 0>> \o <<2, 1, 0, 0>> \o <<0, 0, 0, 0>> \o <<255, 255, 255, 255>>
               \o <<0, 0, 0, 0>> >>)

MapPropAnimationListLists ==
    { BaseMapPropAnimationLists,
      read_map_prop_animation_lists(
          << <<0, 0, 0, 0>> \o <<0, 0, 0, 0>> \o <<0, 0, 0, 0>> \o <<255, 255, 255, 255>>
                 \o <<0, 0, 0, 0>> >>) }

\* build_model_matshp.dat with an empty locator and one that covers the
\* entries 1 and 2 of a table of three
BaseMapPropMaterialShapes ==
    MapPropMaterialShapes_parse_bytes(
        U16Bytes(2) \o U16Bytes(3) \o PairBytes(<< <<0, 0>>, <<2, 1>> >>)
            \o PairBytes(IdsTable), FALSE).val

BaseAreaData == << AreaData_from_bytes(<<1, 0, 2, 0, 3, 0, 4, 0>>) >>

\* sinjoh_plat::data::map_headers::PLATINUM_MAP_HEADERS, a static map from id
\* to MapHeader: two of its entries, with two of the 21 columns
PLATINUM_MAP_HEADERS ==
    << [id |-> 0, area_data_archive_id |-> 0, map_matrix_id |-> 0],
       [id |-> 1, area_data_archive_id |-> 0, map_matrix_id |-> 0] >>

BaseResources ==
    [area_data |-> BaseAreaData,
     area_lights |-> BaseAreaLights,
     area_map_props |-> BaseAreaMapProps,
     map_prop_animation_lists |-> BaseMapPropAnimationLists,
     map_prop_material_shapes |-> BaseMapPropMaterialShapes,
     map_matrices |-> BaseMapMatrices,
     land_data |-> BaseLandData]

\* the three lists the area and land claims are about vary together; the
\* matrices and the animation lists vary against the base
ResourceSets ==
    { [BaseResources EXCEPT !.area_lights = l, !.area_map_props = p, !.land_data = d] :
        l \in AreaLightLists, p \in AreaMapPropsLists, d \in LandDataLists }
    \cup { [BaseResources EXCEPT !.map_matrices = m] : m \in MapMatrixLists }
    \cup { [BaseResources EXCEPT !.map_prop_animation_lists = a] :
             a \in MapPropAnimationListLists }

\* a database an earlier program left at the export path
StaleDb == [EmptyDb EXCEPT !.tables = { "area_data", "map_header" }]

(***************************************************************************)
(* export_plat_resources (pokeplat_utils/src/sql/export.rs) as a state     *)
(* machine: the file is removed and the connection opened, then            *)
(* prepare_db_from_plat_resources calls the populators one after the other *)
(* and stops at the first that fails.                                      *)
(***************************************************************************)
InitSql ==
    /\ resources \in ResourceSets
    /\ foreign_keys \in BOOLEAN
    /\ db_file \in { [exists |-> FALSE, db |-> EmptyDb], [exists |-> TRUE, db |-> StaleDb] }
    /\ export = [run |-> 0, running |-> FALSE]
    /\ outcomes = <<>>
    /\ history = <<>>
    /\ tx = [opened |-> 0, committed |-> 0]
    /\ NarcIdle
    /\ LightIdle
    /\ AnimIdle
    /\ MatShpIdle
    /\ LandIdle
    /\ ReplIdle
    /\ LoadIdle

\* the export that leaves the file of an earlier run in place
remove_file_skipped(f) == [ok |-> TRUE, kind |-> "", file |-> f]

\* fs::remove_file(path)
remove_file(f) ==
    IF f.exists THEN [ok |-> TRUE, kind |-> "", file |-> [exists |-> FALSE, db |-> EmptyDb]]
    ELSE [ok |-> FALSE, kind |-> "NotFound", file |-> f]

\* Connection::open(path): the database of the file, or a new empty one
Connection_open(f) == IF f.exists THEN f ELSE [exists |-> TRUE, db |-> EmptyDb]

\* the order of prepare_db_from_plat_resources
Populators ==
    << "area_data", "area_lights", "area_map_props", "land_data", "map_matrices",
       "map_prop_animation_lists", "map_prop_material_shapes", "map_headers" >>

\* the populator `name` is the next to be called
Next_populator(name) ==
    /\ export.running
    /\ Len(outcomes) < Len(Populators)
    /\ Populators[Len(outcomes) + 1] = name

\* the first lines of export_plat_resources
export_open(r) ==
    IF ~r.ok /\ r.kind # "NotFound"
    THEN /\ history' = Append(history, [ok |-> FALSE, db |-> db_file.db])
         /\ export' = [run |-> export.run + 1, running |-> FALSE]
         /\ UNCHANGED db_file
    ELSE /\ db_file' = Connection_open(r.file)
         /\ export' = [run |-> export.run + 1, running |-> TRUE]
         /\ UNCHANGED history

export_plat_resources ==
    /\ ~export.running
    /\ export.run < MaxRuns
    /\ export_open(remove_file(db_file))
    /\ outcomes' = <<>>
    /\ tx' = [opened |-> 0, committed |-> 0]
    /\ UNCHANGED <<resources, foreign_keys, notSql>>

\* a run that calls the next populator whatever the last one returned
populator_returns_keeps_going(r) ==
    /\ db_file' = [db_file EXCEPT !.db = r.db]
    /\ outcomes' = Append(outcomes, r.ok)
    /\ IF Len(outcomes) + 1 < Len(Populators)
       THEN UNCHANGED <<export, history>>
       ELSE /\ export' = [export EXCEPT !.running = FALSE]
            /\ history' = Append(history, [ok |-> r.ok, db |-> r.db])
    /\ UNCHANGED <<resources, foreign_keys, notSql>>

\* a populator returned r: `?` ends the run on an error, and the last
\* populator ends it with Ok
populator_returns(r) ==
    /\ db_file' = [db_file EXCEPT !.db = r.db]
    /\ outcomes' = Append(outcomes, r.ok)
    /\ IF r.ok /\ Len(outcomes) + 1 < Len(Populators)
       THEN UNCHANGED <<export, history>>
       ELSE /\ export' = [export EXCEPT !.running = FALSE]
            /\ history' = Append(history, [ok |-> r.ok, db |-> r.db])
    /\ UNCHANGED <<resources, foreign_keys, notSql>>

\* the tables that create_sql_tables of each populator creates, in its order
PopulatorTables(name) ==
    CASE name = "area_data" -> << "area_data" >>
      [] name = "area_lights" -> << "area_light", "area_light_properties", "area_light_color" >>
      [] name = "area_map_props" -> << "area_map_prop" >>
      [] name = "land_data" -> LandDataTables
      [] name = "map_matrices" ->
             << "map_matrix", "map_matrix_header_id", "map_matrix_altitude",
                "map_matrix_land_data_id" >>
      [] name = "map_prop_animation_lists" ->
             << "map_prop_animation_list", "map_prop_animation_list_ids" >>
      [] name = "map_prop_material_shapes" ->
             << "map_prop_material_shape", "map_prop_material_shape_ids" >>
      [] name = "map_headers" -> << "map_header" >>

populate_area_data ==
    /\ Next_populator("area_data")
    /\ populator_returns(create_and_populate_sql_tables(db_file.db, foreign_keys,
           PopulatorTables("area_data"), area_data_statements(resources.area_data)))
    /\ UNCHANGED tx

populate_area_lights ==
    /\ Next_populator("area_lights")
    /\ populator_returns(create_and_populate_sql_tables(db_file.db, foreign_keys,
           PopulatorTables("area_lights"),
           area_lights_statements(resources.area_lights)))
    /\ UNCHANGED tx

populate_area_map_props ==
    /\ Next_populator("area_map_props")
    /\ populator_returns(create_and_populate_sql_tables(db_file.db, foreign_keys,
           PopulatorTables("area_map_props"), area_map_props_statements(resources.area_map_props)))
    /\ UNCHANGED tx

land_data_returns(r) ==
    /\ populator_returns([ok |-> r.ok, db |-> r.db])
    /\ tx' = [opened |-> r.opened, committed |-> r.committed]

populate_land_data ==
    /\ Next_populator("land_data")
    /\ land_data_returns(land_data_create_and_populate(db_file.db, foreign_keys,
                                                       resources.land_data))

populate_map_matrices ==
    /\ Next_populator("map_matrices")
    /\ populator_returns(create_and_populate_sql_tables(db_file.db, foreign_keys,
           PopulatorTables("map_matrices"),
           map_matrices_statements(resources.map_matrices)))
    /\ UNCHANGED tx

populate_map_prop_animation_lists ==
    /\ Next_populator("map_prop_animation_lists")
    /\ populator_returns(create_and_populate_sql_tables(db_file.db, foreign_keys,
           PopulatorTables("map_prop_animation_lists"),
           map_prop_animation_lists_statements(resources.map_prop_animation_lists)))
    /\ UNCHANGED tx

populate_map_prop_material_shapes ==
    /\ Next_populator("map_prop_material_shapes")
    /\ populator_returns(create_and_populate_sql_tables(db_file.db, foreign_keys,
           PopulatorTables("map_prop_material_shapes"),
           map_prop_material_shapes_statements(resources.map_prop_material_shapes)))
    /\ UNCHANGED tx

populate_map_headers ==
    /\ Next_populator("map_headers")
    /\ populator_returns(create_and_populate_sql_tables(db_file.db, foreign_keys,
           PopulatorTables("map_headers"), map_headers_statements(PLATINUM_MAP_HEADERS)))
    /\ UNCHANGED tx

NextSql ==
    \/ export_plat_resources
    \/ populate_area_data
    \/ populate_area_lights
    \/ populate_area_map_props
    \/ populate_land_data
    \/ populate_map_matrices
    \/ populate_map_prop_animation_lists
    \/ populate_map_prop_material_shapes
    \/ populate_map_headers

SpecSql == InitSql /\ [][NextSql]_vars

(***************************************************************************)
(* The interactive SQL session: SqlRepl::repl.                             *)
(***************************************************************************)
\* at most this many queries are typed before the input ends
MaxQueries == 3
\* the prompt is shown at most this many times
MaxPrompts == 6

\* a query that returns rows, a statement that changes a row, and a text
\* that Connection::prepare rejects
Queries == { "SELECT", "INSERT", "syntax error" }

QueryLists == UNION { [1..n -> Queries] : n \in 0..MaxQueries }

\* Input::interact_text on the input that is left: the next line, or the
\* error that reports the end of the input
interact_text(input) ==
    IF input = <<>> THEN [ok |-> FALSE, line |-> "", rest |-> input]
    ELSE [ok |-> TRUE, line |-> Head(input), rest |-> Tail(input)]

\* SqlRepl::handle_input: the Result, whether a table was printed, and the
\* rows the statement changed
SqlRepl_handle_input(input) ==
    CASE input = "SELECT" -> [ok |-> TRUE, printed |-> 1, changes |-> 0]
      [] input = "INSERT" -> [ok |-> TRUE, printed |-> 1, changes |-> 1]
      [] OTHER -> [ok |-> FALSE, printed |-> 0, changes |-> 0]

InitRepl ==
    /\ stdin \in QueryLists
    /\ session = NoSession
    /\ NarcIdle
    /\ LightIdle
    /\ AnimIdle
    /\ MatShpIdle
    /\ LandIdle
    /\ SqlIdle
    /\ LoadIdle

\* repl(): the lines before the loop
repl ==
    /\ session.pc = "constructed"
    /\ session' = [session EXCEPT !.pc = "prompt"]
    /\ UNCHANGED <<stdin, notRepl>>

\* the match on what interact_text returned: Ok goes on to handle_input, Err
\* is logged, and the loop goes round
repl_match(r) ==
    /\ stdin' = r.rest
    /\ session' = IF r.ok
                  THEN [session EXCEPT !.pc = "handle_input", !.input = r.line,
                                       !.prompts = @ + 1]
                  ELSE [session EXCEPT !.prompts = @ + 1, !.eof_reports = @ + 1,
                                       !.errors = @ + 1]

\* one turn of the loop up to the match: println!() and the prompt
repl_prompt ==
    /\ session.pc = "prompt"
    /\ session.prompts < MaxPrompts
    /\ repl_match(interact_text(stdin))
    /\ UNCHANGED notRepl

\* the Ok arm: the query runs, an error of it is logged, and the loop goes round
repl_handled(r) ==
    session' = [session EXCEPT !.pc = "prompt", !.input = "",
                               !.errors = @ + (IF r.ok THEN 0 ELSE 1),
                               !.tables = @ + r.printed,
                               !.changes = r.changes]

repl_handle_input ==
    /\ session.pc = "handle_input"
    /\ repl_handled(SqlRepl_handle_input(session.input))
    /\ UNCHANGED <<stdin, notRepl>>

NextRepl ==
    \/ repl
    \/ repl_prompt
    \/ repl_handle_input

SpecRepl == InitRepl /\ [][NextRepl]_vars

(***************************************************************************)
(* Properties of the populated database.                                   *)
(***************************************************************************)
\* the populator `name` has returned in the run under way or just finished
Populated(name) ==
    \E k \in 1..Len(outcomes) : Populators[k] = name

\* ... and it returned Ok
PopulatedOk(name) ==
    \E k \in 1..Len(outcomes) : Populators[k] = name /\ outcomes[k]

Rows(t) == db_file.db.rows[t]

\* the rows of table t that belong to the map matrix with id m
MatrixCells(t, m) == { r \in Rows(t) : r.map_matrix_id = m }

\* the rows are the cells 0 .. count - 1 of a grid of the given width and
\* height, each once, with the values of ids in the given column
CellsOfGrid(cells, column, ids, count, width, height) ==
    /\ Cardinality(cells) = count
    /\ Cardinality({ <<r.x, r.y>> : r \in cells }) = Cardinality(cells)
    /\ \A r \in cells :
           /\ r.x < width
           /\ r.y < height
           /\ \E index \in 0..(count - 1) :
                  /\ r.x = index % width
                  /\ r.y = index \div width
                  /\ r[column] = ids[index + 1]

\* C14: once the map-matrix populator has returned, it returned Ok, and for
\* every record with id m, height h and width w the table
\* map_matrix_land_data_id has h*w rows of m, map_matrix_header_id and
\* map_matrix_altitude have h*w rows of m when their section is present and
\* none otherwise, and the rows of m in each table have distinct (x, y) with
\* x = index mod w < w and y = index div w < h.
C14_MatrixRows ==
    Populated("map_matrices") =>
        /\ PopulatedOk("map_matrices")
        /\ \A m \in 1..Len(resources.map_matrices) :
               /\ CellsOfGrid(MatrixCells("map_matrix_land_data_id", m - 1), "land_data_id",
                      resources.map_matrices[m].land_data_ids,
                      resources.map_matrices[m].height * resources.map_matrices[m].width,
                      resources.map_matrices[m].width, resources.map_matrices[m].height)
               /\ IF resources.map_matrices[m].map_header_ids.some
                  THEN CellsOfGrid(MatrixCells("map_matrix_header_id", m - 1),
                           "map_header_id", resources.map_matrices[m].map_header_ids.val,
                           resources.map_matrices[m].height * resources.map_matrices[m].width,
                           resources.map_matrices[m].width, resources.map_matrices[m].height)
                  ELSE MatrixCells("map_matrix_header_id", m - 1) = {}
               /\ IF resources.map_matrices[m].altitudes.some
                  THEN CellsOfGrid(MatrixCells("map_matrix_altitude", m - 1), "altitude",
                           resources.map_matrices[m].altitudes.val,
                           resources.map_matrices[m].height * resources.map_matrices[m].width,
                           resources.map_matrices[m].width, resources.map_matrices[m].height)
                  ELSE MatrixCells("map_matrix_altitude", m - 1) = {}

\* a matrix of height 1 and width 2 with header ids only, and one of height 2
\* and width 1 with altitudes only
C14_Witness ==
    /\ PopulatedOk("map_matrices")
    /\ Len(resources.map_matrices) = 2
    /\ MatrixCells("map_matrix_header_id", 0)
           = { [map_matrix_id |-> 0, x |-> 0, y |-> 0, map_header_id |-> 1],
               [map_matrix_id |-> 0, x |-> 1, y |-> 0, map_header_id |-> 2] }
    /\ MatrixCells("map_matrix_altitude", 0) = {}
    /\ MatrixCells("map_matrix_header_id", 1) = {}
    /\ MatrixCells("map_matrix_land_data_id", 1)
           = { [map_matrix_id |-> 1, x |-> 0, y |-> 0, land_data_id |-> 0],
               [map_matrix_id |-> 1, x |-> 0, y |-> 1, land_data_id |-> 1] }

\* the rows of table t that belong to block `block` of the area-light file id
BlockRows(t, id, block) ==
    { r \in Rows(t) : r.area_light_id = id /\ r.area_light_end_time = block.end_time }

PresentSlots(block) == { k \in 0..3 : Lights(block)[k + 1].some }

\* C15: once the area-light populator has returned, it returned Ok, every
\* file has as many area_light rows as blocks, one per block keyed by the
\* file's id and the block's end_time, and every block has one
\* area_light_properties row per present light (light_id being the slot)
\* and four area_light_color rows, one per kind.
C15_BlockRows ==
    Populated("area_lights") =>
        /\ PopulatedOk("area_lights")
        /\ \A i \in 1..Len(resources.area_lights) :
               /\ Cardinality({ r \in Rows("area_light") : r.id = i - 1 })
                      = Len(resources.area_lights[i])
               /\ \A j \in 1..Len(resources.area_lights[i]) :
                      /\ [id |-> i - 1, end_time |-> resources.area_lights[i][j].end_time]
                             \in Rows("area_light")
                      /\ { r.light_id : r \in BlockRows("area_light_properties", i - 1,
                                                        resources.area_lights[i][j]) }
                             = PresentSlots(resources.area_lights[i][j])
                      /\ Cardinality(BlockRows("area_light_properties", i - 1,
                                               resources.area_lights[i][j]))
                             = Cardinality(PresentSlots(resources.area_lights[i][j]))
                      /\ { r.kind : r \in BlockRows("area_light_color", i - 1,
                                                    resources.area_lights[i][j]) }
                             = { "diffuse", "ambient", "specular", "emission" }
                      /\ Cardinality(BlockRows("area_light_color", i - 1,
                                               resources.area_lights[i][j])) = 4

\* C16: once the area-map-props populator has returned, it returned Ok, and
\* for every record with id i the table area_map_prop holds one row (i, p)
\* per prop id p of the record's list, as many rows as the list is long.
C16_RowPerPropId ==
    Populated("area_map_props") =>
        /\ PopulatedOk("area_map_props")
        /\ \A i \in 1..Len(resources.area_map_props) :
               /\ \A k \in 1..Len(resources.area_map_props[i]) :
                      [id |-> i - 1, map_prop_id |-> resources.area_map_props[i][k]]
                          \in Rows("area_map_prop")
               /\ Cardinality({ r \in Rows("area_map_prop") : r.id = i - 1 })
                      = Len(resources.area_map_props[i])

\* the row of table t has a parent row for each FOREIGN KEY of the table
ParentsExist(t, row) ==
    \A fk \in ForeignKeys(t) : has_parent(db_file.db, fk, row)

\* a populator has just returned Ok
LastPopulatedOk == Len(outcomes) > 0 /\ outcomes[Len(outcomes)]

LandDataRowsOf(t, cs) ==
    UNION { { cs[i].rows[k] : k \in 1..Len(cs[i].rows) } : i \in { j \in 1..Len(cs) : cs[j].table = t } }

\* the tables of the populators that run before the land-data populator
EarlierTables ==
    { "area_data", "area_light", "area_light_properties", "area_light_color", "area_map_prop" }

\* the step in which the land-data populator runs and returns
LandDataStep == Next_populator("land_data") /\ Len(outcomes') = Len(outcomes) + 1

\* C18: land-data population is all-or-nothing. It opens one transaction and
\* commits it once when every insert of every record succeeded, and then the
\* eight land-data tables hold all the rows of all records; when an insert
\* or a tile conversion fails the transaction is not committed and the eight
\* tables hold no row, while the rows of the earlier populators are kept.
C18_AllOrNothing ==
    [][LandDataStep =>
        /\ tx'.opened = 1
        /\ \A t \in EarlierTables : db_file'.db.rows[t] = db_file.db.rows[t]
        /\ IF outcomes'[Len(outcomes')]
           THEN /\ tx'.committed = 1
                /\ \A i \in 1..Len(LandDataTables) :
                       db_file'.db.rows[LandDataTables[i]]
                           = LandDataRowsOf(LandDataTables[i], land_data_statements(resources.land_data))
           ELSE /\ tx'.committed = 0
                /\ \A i \in 1..Len(LandDataTables) : db_file'.db.rows[LandDataTables[i]] = {}]_vars

\* the land-data populator failed after a record was inserted in full, and
\* the earlier populators left rows
C18_Witness ==
    /\ Len(outcomes) = 4
    /\ ~outcomes[4]
    /\ tx = [opened |-> 1, committed |-> 0]
    /\ Len(resources.land_data) = 2
    /\ \A t \in EarlierTables : Rows(t) # {}
    /\ \A i \in 1..Len(LandDataTables) : Rows(LandDataTables[i]) = {}

\* C19: the export run twice in succession with the same inputs and the same
\* output path ends both times in the same way, and a first run that succeeds
\* is followed by a second that succeeds; after the second run every table
\* holds the rows it held after the first, because the file of the first run
\* is deleted before the database is opened. A path with no file is no error.
C19_SecondRunSame ==
    /\ Len(history) = 2 => history[2] = history[1]
    /\ export.running => db_file.exists
    /\ (export.running /\ outcomes = <<>>) => db_file.db = EmptyDb

\* both runs succeeded and left rows in the tables
C19_Witness ==
    /\ Len(history) = 2
    /\ history[1].ok
    /\ history[2].ok
    /\ \A t \in TableNames : t \in history[2].db.tables
    /\ history[2].db.rows["area_light"] # {}
    /\ history[2].db.rows["bdhc_plate"] # {}

\* C20: the interactive session ends when its input reaches end-of-file:
\* once reading the prompt has reported the end of the input, repl() has
\* returned, and the prompt is not shown again.
C20_EofEndsSession ==
    session.eof_reports > 0 => (session.pc = "returned" /\ session.eof_reports = 1)

(***************************************************************************)
(* Further claims about the NARC reader.                                   *)
(***************************************************************************)
\* the file with the four bytes of its magic replaced by "NARC"
WithGoodMagic(f) == GoodMagic \o SubSeq(f, 5, Len(f))

\* the reader is in the state that read_header's result h leaves
OpenedAs(h) ==
    /\ (narc.state = "failed") <=> ~h.ok
    /\ narc.header = h.header
    /\ narc.err = h.err

\* C21: with skip_narc_magic_number_check set the four bytes of the magic
\* are still read, so the order mark and the fields after it come from the
\* same offsets: a file of four bytes or more opens as the same file with
\* the correct magic opens with the flag clear.
C21_SkipOnlySuppresses ==
    (narc.state # "closed" /\ flags.skip_narc_magic_number_check /\ Len(file) >= 4)
        => OpenedAs(read_header(WithGoodMagic(file),
                                [flags EXCEPT !.skip_narc_magic_number_check = FALSE]))

(***************************************************************************)
(* Further claims about the population of the database.                    *)
(***************************************************************************)
\* the tables of the populators 1..k
TablesUpTo(k) ==
    UNION { { PopulatorTables(Populators[j])[i] : i \in 1..Len(PopulatorTables(Populators[j])) } : j \in 1..k }

\* C22 as stated: during population no row is inserted while a CREATE TABLE
\* of the schema is still to come: when a table holds a row, every table of
\* the schema exists.
C22_AllTablesFirst ==
    (export.running /\ \E t \in TableNames : Rows(t) # {})
        => \A t \in TableNames : t \in db_file.db.tables

\* C22, amended: each populator creates all of its own tables before it
\* inserts its rows. In a run the tables that exist are the tables of the
\* populators called so far, all of them, and rows are in these tables only.
C22_OwnTablesFirst ==
    export.run > 0 =>
        /\ db_file.db.tables = TablesUpTo(Len(outcomes))
        /\ \A t \in TableNames : Rows(t) # {} => t \in db_file.db.tables

\* rows were inserted by three populators, and the tables of the populators
\* after them are still to be created
C22_Witness ==
    /\ export.running
    /\ Len(outcomes) = 3
    /\ Rows("area_data") # {}
    /\ Rows("area_light_color") # {}
    /\ Rows("area_map_prop") # {}
    /\ "bdhc_point" \notin db_file.db.tables
    /\ "map_header" \notin db_file.db.tables

(***************************************************************************)
(* Further claims about the area-light decoder.                            *)
(***************************************************************************)
\* the states of the block machine in the order of the lines of a block
BlockLineOrder ==
    << "EndTime", "Light0", "Light1", "Light2", "Light3", "DiffuseReflectColor",
       "AmbientReflectColor", "SpecularReflectColor", "EmissionColor" >>

\* the non-empty lines among the first n lines of the text
NonEmptyLines(n) == SelectSeq(SubSeq(lines, 1, n), LAMBDA l : l # "")

\* the block that the lines ls from position k on, read in the order of the
\* states, make of block b
RECURSIVE BlockOfLines(_, _, _)
BlockOfLines(ls, k, b) ==
    IF k > Len(ls) THEN b
    ELSE BlockOfLines(ls, k + 1, parse_block_line(ls[k], BlockLineOrder[k], 0, b).block)

\* the machine after the non-empty lines ne were parsed
MachineAfter(ne) ==
    /\ Len(blocks) = Len(ne) \div 9
    /\ current_block_line = BlockLineOrder[(Len(ne) % 9) + 1]
    /\ \A j \in 1..Len(blocks) :
           blocks[j] = BlockOfLines(SubSeq(ne, 9 * (j - 1) + 1, 9 * j), 1, DefaultBlock)
    /\ current_block = BlockOfLines(SubSeq(ne, 9 * (Len(ne) \div 9) + 1, Len(ne)), 1, DefaultBlock)

\* C23: the block machine advances by one state per parsed non-empty line in
\* the order EndTime, Light0..Light3, Diffuse, Ambient, Specular, Emission;
\* after n such lines the result holds n div 9 blocks, the machine is in the
\* state of rank n mod 9, every block is made of its own nine lines, and the
\* block being read is made of the lines since the last block from a default
\* block: no field of one block leaks into the next.
C23_BlockMachine ==
    al_ret.tag = "Pending" => MachineAfter(NonEmptyLines(line_no))

\* a block with a present first light is complete, and the machine has read
\* the end time of the next block, whose lights are still the default ones
C23_Witness ==
    /\ al_ret.tag = "Pending"
    /\ Len(blocks) = 1
    /\ blocks[1].light_0.some
    /\ current_block_line = "Light0"
    /\ current_block.end_time # DefaultBlock.end_time
    /\ ~current_block.light_0.some

\* the light of block b that a line read in state S is stored in
LightField(b, S) ==
    CASE S = "Light0" -> b.light_0
      [] S = "Light1" -> b.light_1
      [] S = "Light2" -> b.light_2
      [] OTHER -> b.light_3

\* C24: a light line whose first field is not exactly "1" gives an absent
\* light and no error, whatever the rest of the line is, and the machine
\* advances; a light line whose first field is "1" and that parses gives a
\* present light whose direction components are, as 16-bit patterns, the
\* signed integers of fields 4, 5 and 6, unscaled.
C24_LightLine ==
    [][(BlockLineStep /\ current_block_line \in LightLines) =>
         LET fields == split(Line)
             S == current_block_line
         IN /\ fields[1] # "1" =>
                   /\ al_ret' = al_ret
                   /\ line_no' = line_no + 1
                   /\ current_block_line' = next(S)
                   /\ LightField(current_block', S) = NoLight
            /\ (fields[1] = "1" /\ al_ret' = al_ret) =>
                   /\ current_block_line' = next(S)
                   /\ LightField(current_block', S).some
                   /\ LightField(current_block', S).direction
                          = DsVec(parse_i16(fields[5]).val, parse_i16(fields[6]).val,
                                  parse_i16(fields[7]).val)]_vars

\* a valid light with a negative and an out-of-range direction was read, and
\* after it a line that is no list of numbers gave an absent light
C24_Witness ==
    /\ al_ret.tag = "Pending"
    /\ current_block_line = "Light2"
    /\ lines[line_no] = "x"
    /\ lines[line_no - 1] = "1,1,2,3,-5000,4096,-4097"
    /\ current_block.light_0 = SomeLight(DsRgb(1, 2, 3), DsVec(-5000, 4096, -4097))
    /\ current_block.light_1 = NoLight

\* the start position of the k-th chunk of file f: the first chunk follows
\* the 16 bytes of the header, and each chunk starts at the start of the one
\* before plus the size that one declares
RECURSIVE ChunkStart(_, _)
ChunkStart(f, k) ==
    IF k = 1 THEN 16
    ELSE ChunkStart(f, k - 1) + as_u64(read_u32_le(f, ChunkStart(f, k - 1) + 4).val)

ChunkMagic(f, k) == read_u32_le(f, ChunkStart(f, k))
ChunkSize(f, k) == read_u32_le(f, ChunkStart(f, k) + 4)

\* the k-th chunk can be read: its magic, its size, and its table when it is
\* a FATB chunk
ChunkReadable(f, k) ==
    /\ ChunkMagic(f, k).ok
    /\ ChunkSize(f, k).ok
    /\ ChunkMagic(f, k).val = FATB_MAGIC
           => read_fatb_chunk(f, ChunkStart(f, k) + 8, ChunkSize(f, k).val).ok

\* the last of the chunks 1..n with the given magic, 0 when there is none
LastChunk(f, n, magic) ==
    LET ks == { k \in 1..n : ChunkMagic(f, k).val = magic }
    IN IF ks = {} THEN 0 ELSE CHOOSE k \in ks : \A j \in ks : j <= k

\* the descriptors of header hdr are those of the last FATB, FNTB and FIMG
\* chunk among the chunks 1..n of f, read where ChunkStart puts them
DescriptorsOf(hdr, f, n) ==
    /\ hdr.fat = IF LastChunk(f, n, FATB_MAGIC) = 0 THEN NoFat
                 ELSE read_fatb_chunk(f, ChunkStart(f, LastChunk(f, n, FATB_MAGIC)) + 8,
                                      ChunkSize(f, LastChunk(f, n, FATB_MAGIC)).val).fat
    /\ hdr.fnt = IF LastChunk(f, n, FNTB_MAGIC) = 0 THEN NoFnt
                 ELSE [some |-> TRUE,
                       chunk_size |-> ChunkSize(f, LastChunk(f, n, FNTB_MAGIC)).val]
    /\ hdr.files = IF LastChunk(f, n, FIMG_MAGIC) = 0 THEN NoFiles
                   ELSE [some |-> TRUE,
                         chunk_size |-> ChunkSize(f, LastChunk(f, n, FIMG_MAGIC)).val,
                         img_position |-> ChunkStart(f, LastChunk(f, n, FIMG_MAGIC)) + 8]

\* the file was opened from its magic on, and the fields of its header up to
\* the chunk count could be read
ChunksReached ==
    /\ narc.state # "closed"
    /\ ~flags.skip_narc_magic_number_check
    /\ Len(file) >= 16
    /\ narc.err \notin { "WrongNarcMagic", "UnknownBom" }

\* C25: read_chunks processes exactly number_of_chunks chunks, the k+1-th at
\* the start of the k-th plus the size the k-th declares, whatever its type
\* and whatever its parser consumed; the open fails only when a chunk cannot
\* be read, an unknown magic is no error and changes no descriptor.
C25_ChunkPositions ==
    ChunksReached =>
        /\ (narc.state = "failed")
               <=> \E k \in 1..read_u16_le(file, 14).val : ~ChunkReadable(file, k)
        /\ narc.state # "failed"
               => /\ narc.header.number_of_chunks = read_u16_le(file, 14).val
                  /\ DescriptorsOf(narc.header, file, narc.header.number_of_chunks)

\* the archive whose FATB entry runs past the declared size of its chunk is
\* open: the second chunk was read inside the first, at its start plus 12
C25_Witness ==
    /\ narc.state = "open"
    /\ file = RawNarc(2, OverrunFatb)
    /\ narc.header.fat.files = << [start_address |-> FIMG_MAGIC, end_address |-> U32(16)] >>
    /\ narc.header.files = [some |-> TRUE, chunk_size |-> U32(16), img_position |-> 36]

(***************************************************************************)
(* Further claims about the land-data decoder.                             *)
(***************************************************************************)
\* the size that the k-th u32 of the header of land_bytes declares
DeclaredSize(k) == as_u64(read_u32_le(land_bytes, 4 * (k - 1)).val)

\* the offset of section k: the header, then the declared sizes before it
SectionOffset(k) ==
    LAND_DATA_HEADER_SIZE
    + (IF k > 1 THEN DeclaredSize(1) ELSE 0)
    + (IF k > 2 THEN DeclaredSize(2) ELSE 0)
    + (IF k > 3 THEN DeclaredSize(3) ELSE 0)

\* the bytes of section k as the header declares it
SectionBytes(k) ==
    SubSeq(land_bytes, SectionOffset(k) + 1, SectionOffset(k) + DeclaredSize(k))

\* every section the header declares lies inside the buffer
SectionsInside ==
    /\ Len(land_bytes) >= LAND_DATA_HEADER_SIZE
    /\ SectionOffset(4) + DeclaredSize(4) <= Len(land_bytes)

\* C26: the four sections are read at the offsets the header sizes give:
\* terrain at 16, props at 16 + terrain_size, the model after the props and
\* the BDHC after the model. terrain_size div 2 terrain entries and
\* props_size div 48 prop instances are decoded, the BDHC decoder is given
\* exactly bdhc_size bytes, and when it fails the decode fails with that
\* cause and returns no record.
C26_SectionsAtDeclaredOffsets ==
    (land_ret.tag # "Pending" /\ SectionsInside) =>
        IF Bdhc_parse_bytes(SectionBytes(4)).tag = "Err"
        THEN land_ret = LandErr("BdhcParseError")
        ELSE /\ land_ret.tag = "Ok"
             /\ land_ret.val.terrain_attributes
                    = [k \in 1..(DeclaredSize(1) \div 2) |->
                          TerrainAttributes_from_raw(
                              u16_from_le_bytes(SectionBytes(1), 2 * (k - 1)))]
             /\ land_ret.val.map_props
                    = [k \in 1..(DeclaredSize(2) \div 48) |->
                          MapPropInstance_from_bytes(
                              SubSeq(SectionBytes(2), 48 * (k - 1) + 1, 48 * k))]
             /\ land_ret.val.map_model = SectionBytes(3)
             /\ land_ret.val.bdhc = Bdhc_parse_bytes(SectionBytes(4)).val

\* a file whose terrain section has 3 bytes and whose props section has 55
\* was decoded to one terrain entry, one prop instance read at offset 19, the
\* two bytes of the model and a BDHC
C26_Witness ==
    /\ land_ret.tag = "Ok"
    /\ DeclaredSize(1) = 3
    /\ DeclaredSize(2) = 55
    /\ Len(land_ret.val.terrain_attributes) = 1
    /\ Len(land_ret.val.map_props) = 1
    /\ land_ret.val.map_props[1].map_prop_model_id = U32(3)
    /\ land_ret.val.map_model = <<7, 7>>
    /\ Len(land_ret.val.bdhc.points) = 1

\* C27: the state End is never the state of the block machine when a line
\* is dispatched, whatever the text: the machine leaves End for EndTime in
\* the iteration that reaches it, and neither BlockParseOverrun nor
\* MalformedBlockLine is returned.
C27_EndNeverDispatched ==
    /\ current_block_line # "End"
    /\ al_ret.err.kind \notin { "BlockParseOverrun", "MalformedBlockLine" }

\* two blocks are complete: the machine reached the end of a block twice and
\* a line was dispatched after the first time
C27_Witness ==
    /\ Len(blocks) = 2
    /\ current_block_line = "EndTime"
    /\ line_no >= 18

(***************************************************************************)
(* The export command (pokeplat_utils/src/main.rs): main loads the seven   *)
(* inputs with PlatLoader::load_resources, each stage ending the load with *)
(* `?` when it fails, and only then calls export_plat_resources.           *)
(***************************************************************************)
\* the order of load_resources
LoadStages ==
    << "area_data", "area_lights", "area_map_props", "map_prop_animation_lists",
       "map_prop_material_shapes", "map_matrices", "land_data" >>

\* an input file: whether it can be opened and, per member, what the files
\* iterator yields for it
Member(b) == [read |-> "Ok", bytes |-> b]
Unreadable == [read |-> "Err", bytes |-> <<>>]
Archive(ms) == [opens |-> TRUE, members |-> ms]
Missing == [opens |-> FALSE, members |-> <<>>]

Decoded(tag, val) == [tag |-> tag, val |-> val]

\* the closure each stage maps over the members: the decoder of the stage
decode_member(stage, b, checks) ==
    CASE stage = "area_data" ->
             IF Len(b) = 8 THEN Decoded("Ok", AreaData_from_bytes(b))
             ELSE Decoded("Err", <<>>)
      [] stage = "area_lights" ->
             Decoded(AreaLight_parse_string(b).tag, AreaLight_parse_string(b).blocks)
      [] stage = "area_map_props" ->
             Decoded(AreaMapProps_parse_bytes(b).tag, AreaMapProps_parse_bytes(b).map_props_ids)
      [] stage = "map_prop_animation_lists" ->
             Decoded(MapPropAnimationList_parse_bytes(b).tag,
                     MapPropAnimationList_parse_bytes(b))
      [] stage = "map_prop_material_shapes" ->
             Decoded(MapPropMaterialShapes_parse_bytes(b, checks).tag,
                     MapPropMaterialShapes_parse_bytes(b, checks).val)
      [] stage = "map_matrices" ->
             Decoded(MapMatrix_parse_bytes(b).tag, MapMatrix_parse_bytes(b).val)
      [] stage = "land_data" ->
             Decoded(LandData_parse_bytes(b).tag, LandData_parse_bytes(b).val)

\* `?` on a value that is not Ok: the load ends, by an error or by a panic
load_failed(l, tag) == [l EXCEPT !.status = IF tag = "Abort" THEN "aborted" ELSE "failed"]

\* the member read and decoded, its index noted
member_read(l) == [l EXCEPT !.member = @ + 1, !.reads = @ \cup { << l.stage, l.member + 1 >> }]

\* a stage whose closure drops the members that fail
files_iter_map_skip_errors(l, item, checks) ==
    IF item.read # "Ok" \/ decode_member(LoadStages[l.stage], item.bytes, checks).tag # "Ok"
    THEN member_read(l)
    ELSE [member_read(l) EXCEPT
             !.decoded[l.stage] =
                 Append(@, decode_member(LoadStages[l.stage], item.bytes, checks).val)]

\* one item of files_iter().map(..) taken by try_collect
files_iter_map(l, item, checks) ==
    IF item.read # "Ok" THEN load_failed(member_read(l), item.read)
    ELSE IF decode_member(LoadStages[l.stage], item.bytes, checks).tag # "Ok"
    THEN load_failed(member_read(l),
                     decode_member(LoadStages[l.stage], item.bytes, checks).tag)
    ELSE [member_read(l) EXCEPT
             !.decoded[l.stage] =
                 Append(@, decode_member(LoadStages[l.stage], item.bytes, checks).val)]

\* the stage returned Ok: the next stage, or PlatResources after the last
stage_returns(l) ==
    IF l.stage = Len(LoadStages) THEN [l EXCEPT !.status = "loaded"]
    ELSE [l EXCEPT !.stage = @ + 1, !.opened = FALSE, !.member = 0]

\* the well-formed member of each input, and one its decoder rejects
GoodMember(stage) ==
    CASE stage = "area_data" -> <<1, 0, 2, 0, 3, 0, 4, 0>>
      [] stage = "area_lights" -> Join(BlockA \o BlockC, "\n")
      [] stage = "area_map_props" -> AreaMapPropsFile(<<5, 6>>)
      [] stage = "map_prop_animation_lists" ->
             <<1, 0, 0, 0>> \o <<2, 1, 0, 0>> \o <<0, 0, 0, 0>> \o <<255, 255, 255, 255>>
                 \o <<0, 0, 0, 0>>
      [] stage = "map_prop_material_shapes" ->
             U16Bytes(2) \o U16Bytes(3) \o PairBytes(<< <<0, 0>>, <<2, 1>> >>)
                 \o PairBytes(IdsTable)
      [] stage = "map_matrices" -> MapMatrixFile(2, 2, 1, 1)
      [] stage = "land_data" -> LandFile(1, 0, 1, <<>>, GoodBdhc, 0)

BadMember(stage) ==
    CASE stage = "area_data" -> <<1, 0, 2, 0, 3, 0, 4>>
      [] stage = "area_lights" -> Join(<< "43200", "1,31,31" >>, "\n")
      [] stage = "area_map_props" -> <<3, 0, 5>>
      [] stage = "map_prop_animation_lists" -> <<1, 0>>
      [] stage = "map_prop_material_shapes" -> <<2, 0, 3>>
      [] stage = "map_matrices" -> <<1, 1, 0, 0, 9, 65>>
      [] stage = "land_data" -> <<4, 0, 0>>

\* per input: the file is missing, it is well-formed, or its second member of
\* three fails (it cannot be read in the archives at an even position, it
\* cannot be decoded in the others); build_model_matshp.dat is one file
InputFiles(k) ==
    IF LoadStages[k] = "map_prop_material_shapes"
    THEN { Missing, Archive(<< Member(GoodMember(LoadStages[k])) >>),
           Archive(<< Member(BadMember(LoadStages[k])) >>) }
    ELSE { Missing,
           Archive(<< Member(GoodMember(LoadStages[k])) >>),
           Archive(<< Member(GoodMember(LoadStages[k])),
                      IF k % 2 = 0 THEN Unreadable ELSE Member(BadMember(LoadStages[k])),
                      Member(GoodMember(LoadStages[k])) >>) }

PathSets ==
    { << a, b, c, d, e, f, g >> :
        a \in InputFiles(1), b \in InputFiles(2), c \in InputFiles(3), d \in InputFiles(4),
        e \in InputFiles(5), f \in InputFiles(6), g \in InputFiles(7) }

InitMain ==
    /\ paths \in PathSets
    /\ loader = [status |-> "loading", stage |-> 1, opened |-> FALSE, member |-> 0,
                 reads |-> {}, decoded |-> [k \in 1..Len(LoadStages) |-> <<>>]]
    /\ resources = <<>>
    /\ foreign_keys \in BOOLEAN
    /\ db_file \in { [exists |-> FALSE, db |-> EmptyDb], [exists |-> TRUE, db |-> StaleDb] }
    /\ export = [run |-> 0, running |-> FALSE]
    /\ outcomes = <<>>
    /\ history = <<>>
    /\ tx = [opened |-> 0, committed |-> 0]
    /\ NarcIdle
    /\ LightIdle
    /\ AnimIdle
    /\ MatShpIdle
    /\ LandIdle
    /\ ReplIdle

\* NarcReader::read_from_file(path, NarcReaderFlags::default()).context(..)?
load_read_from_file ==
    /\ loader.status = "loading"
    /\ ~loader.opened
    /\ LoadStages[loader.stage] # "map_prop_material_shapes"
    /\ loader' = IF paths[loader.stage].opens THEN [loader EXCEPT !.opened = TRUE]
                 ELSE load_failed(loader, "Err")
    /\ UNCHANGED <<paths, sqlVars, notLoad>>

\* the next member of the open archive, read and decoded
load_files_iter_next ==
    /\ loader.status = "loading"
    /\ loader.opened
    /\ loader.member < Len(paths[loader.stage].members)
    /\ loader' = files_iter_map(loader, paths[loader.stage].members[loader.member + 1],
                                overflow_checks)
    /\ UNCHANGED <<paths, sqlVars, notLoad>>

\* the iterator is exhausted: try_collect returns the Vec, read_area_lights
\* fixes every area light, and the stage returns Ok
load_try_collect ==
    /\ loader.status = "loading"
    /\ loader.opened
    /\ loader.member = Len(paths[loader.stage].members)
    /\ loader' = stage_returns(
                     IF LoadStages[loader.stage] = "area_lights"
                     THEN [loader EXCEPT !.decoded[loader.stage] =
                               [k \in 1..Len(@) |-> fix(@[k])]]
                     ELSE loader)
    /\ UNCHANGED <<paths, sqlVars, notLoad>>

\* read_map_prop_material_shapes: fs::read(path)?, then parse_bytes(..)?
load_read_map_prop_material_shapes ==
    /\ loader.status = "loading"
    /\ LoadStages[loader.stage] = "map_prop_material_shapes"
    /\ loader' =
           IF ~paths[loader.stage].opens THEN load_failed(loader, "Err")
           ELSE IF decode_member(LoadStages[loader.stage],
                                 paths[loader.stage].members[1].bytes, overflow_checks).tag
                       # "Ok"
           THEN load_failed(member_read(loader),
                            decode_member(LoadStages[loader.stage],
                                          paths[loader.stage].members[1].bytes,
                                          overflow_checks).tag)
           ELSE stage_returns(
                    [member_read(loader) EXCEPT
                        !.decoded[loader.stage] =
                            decode_member(LoadStages[loader.stage],
                                          paths[loader.stage].members[1].bytes,
                                          overflow_checks).val])
    /\ UNCHANGED <<paths, sqlVars, notLoad>>

\* the PlatResources load_resources returns
PlatResources(decoded) ==
    [area_data |-> decoded[1],
     area_lights |-> decoded[2],
     area_map_props |-> decoded[3],
     map_prop_animation_lists |-> decoded[4],
     map_prop_material_shapes |-> decoded[5],
     map_matrices |-> decoded[6],
     land_data |-> decoded[7]]

\* main after load_resources returned Ok: the Export arm of the match
main_export ==
    /\ loader.status = "loaded"
    /\ loader' = [loader EXCEPT !.status = "exported"]
    /\ resources' = PlatResources(loader.decoded)
    /\ export_open(remove_file(db_file))
    /\ outcomes' = <<>>
    /\ tx' = [opened |-> 0, committed |-> 0]
    /\ UNCHANGED <<paths, foreign_keys, notLoad>>

NextMain ==
    \/ load_read_from_file
    \/ load_files_iter_next
    \/ load_try_collect
    \/ load_read_map_prop_material_shapes
    \/ main_export
    \/ populate_area_data
    \/ populate_area_lights
    \/ populate_area_map_props
    \/ populate_land_data
    \/ populate_map_matrices
    \/ populate_map_prop_animation_lists
    \/ populate_map_prop_material_shapes
    \/ populate_map_headers

SpecMain == InitMain /\ [][NextMain]_vars

\* the members of input s that are not the well-formed member, and the inputs
\* that are missing or have such a member
FailingMembers(s) ==
    { k \in 1..Len(paths[s].members) :
        paths[s].members[k] # Member(GoodMember(LoadStages[s])) }

FailingStages == { s \in 1..Len(LoadStages) : ~paths[s].opens \/ FailingMembers(s) # {} }

Least(S) == CHOOSE x \in S : \A y \in S : x <= y

\* the members of the inputs before input s, and the first k of input s
ReadsUpTo(s, k) ==
    { sk \in (1..Len(LoadStages)) \X (1..3) :
        /\ sk[2] <= Len(paths[sk[1]].members)
        /\ sk[1] < s \/ (sk[1] = s /\ sk[2] <= k) }

\* what a load reads: every member before the first failure, and the member
\* that fails
ReadsUpToFailure ==
    IF FailingStages = {} THEN ReadsUpTo(Len(LoadStages), 3)
    ELSE IF ~paths[Least(FailingStages)].opens THEN ReadsUpTo(Least(FailingStages), 0)
    ELSE ReadsUpTo(Least(FailingStages), Least(FailingMembers(Least(FailingStages))))

LoadStopsAtFirstFailure ==
    /\ loader.reads \subseteq ReadsUpToFailure
    /\ loader.status \in { "failed", "aborted" } =>
          /\ FailingStages # {}
          /\ loader.stage = Least(FailingStages)
          /\ loader.reads = ReadsUpToFailure
          /\ export.run = 0
    /\ export.run > 0 => FailingStages = {} /\ loader.reads = ReadsUpToFailure

\* C28: the file at the export path changes only once all seven inputs are
\* loaded; a load stops at the first input or member that fails, having read
\* nothing after it, the command has then failed for good, and the file at
\* the export path is as it was
C28_DeleteAfterLoad ==
    /\ []LoadStopsAtFirstFailure
    /\ [][/\ loader.status \notin { "loaded", "exported" } => db_file' = db_file
          /\ loader.status \in { "failed", "aborted" } => loader' = loader]_vars

\* the second member of three of the third input fails while a database
\* exists at the export path
C28_Witness ==
    /\ loader.status = "failed"
    /\ loader.stage = 3
    /\ loader.reads = { <<1, 1>>, <<2, 1>>, <<3, 1>>, <<3, 2>> }
    /\ Len(paths[3].members) = 3
    /\ db_file = [exists |-> TRUE, db |-> StaleDb]

(***************************************************************************)
(* The member whose FAT entry ends before it starts.                       *)
(***************************************************************************)
\* C29: get(i) on a FAT entry with end < start returns an error value: the
\* call does not abort, and the error is not that of a read of the
\* difference taken modulo 2^32
C29_ReversedEntryIsError ==
    (MemberCall /\ MemberSize < 0) =>
        /\ ret.res.tag = "Err"
        /\ ret.res.err # "FileReadError"

(***************************************************************************)
(* The order of the populators and the database a failing one leaves.      *)
(***************************************************************************)
\* a table of each populator, in the order the populators are to run
FirstTables ==
    << "area_data", "area_light", "area_map_prop", "land_data_map_prop", "map_matrix",
       "map_prop_animation_list", "map_prop_material_shape", "map_header" >>

\* the INSERT loops of the populator `name`
StatementsOf(name) ==
    CASE name = "area_data" -> area_data_statements(resources.area_data)
      [] name = "area_lights" -> area_lights_statements(resources.area_lights)
      [] name = "area_map_props" -> area_map_props_statements(resources.area_map_props)
      [] name = "land_data" -> land_data_statements(resources.land_data)
      [] name = "map_matrices" -> map_matrices_statements(resources.map_matrices)
      [] name = "map_prop_animation_lists" ->
             map_prop_animation_lists_statements(resources.map_prop_animation_lists)
      [] name = "map_prop_material_shapes" ->
             map_prop_material_shapes_statements(resources.map_prop_material_shapes)
      [] name = "map_headers" -> map_headers_statements(PLATINUM_MAP_HEADERS)

TableSet(ts) == { ts[i] : i \in 1..Len(ts) }

\* the rows of table t among the loops cs[1] .. cs[j - 1] and the first n
\* rows of the loop cs[j]
InsertedUpTo(cs, j, n, t) ==
    UNION { { cs[i].rows[m] : m \in 1..(IF i < j THEN Len(cs[i].rows) ELSE n) } :
              i \in { i \in 1..j : cs[i].table = t } }

\* the tables ts hold what the loops cs insert up to an INSERT that fails in
\* the database db, or up to a loop that ends in an error of its own
StoppedAtFailingInsert(db, cs, ts) ==
    \E j \in 1..Len(cs) : \E n \in 0..Len(cs[j].rows) :
        /\ \A t \in ts : db.rows[t] = InsertedUpTo(cs, j, n, t)
        /\ IF n < Len(cs[j].rows)
           THEN insert_fails(db, foreign_keys, cs[j].table, cs[j].rows[n + 1])
           ELSE cs[j].then_fail

\* a populator runs and returns in this step
PopulatorStep == export.running /\ Len(outcomes') = Len(outcomes) + 1

\* only the last populator called has failed, and the run ended with it
RunStopsAtFailure ==
    export.run > 0 =>
        /\ \A j \in 1..(Len(outcomes) - 1) : outcomes[j]
        /\ export.running => Len(outcomes) < Len(FirstTables) /\ \A j \in 1..Len(outcomes) : outcomes[j]
        /\ ~export.running =>
              /\ Len(outcomes) >= 1
              /\ Len(outcomes) = Len(FirstTables) \/ ~outcomes[Len(outcomes)]
              /\ history[Len(history)] = [ok |-> outcomes[Len(outcomes)], db |-> db_file.db]
        /\ db_file.db.tables = TablesUpTo(Len(outcomes))

\* C30: the populators run in the order area_data, area_light, area_map_prop,
\* land_data, map_matrix, map_prop_animation_list, map_prop_material_shape,
\* map_header, each creating its tables; the run stops with the error of the
\* first populator that fails; that populator leaves the rows of the
\* populators before it as they were and, unless it is land_data, the rows it
\* inserted before its failing INSERT; no table of a later populator exists
C30_StopsAtFirstFailure ==
    /\ []RunStopsAtFailure
    /\ [][PopulatorStep =>
            /\ FirstTables[Len(outcomes')] \in db_file'.db.tables \ db_file.db.tables
            /\ db_file'.db.tables \ db_file.db.tables
                   = TableSet(PopulatorTables(Populators[Len(outcomes')]))
            /\ \A t \in db_file.db.tables : db_file'.db.rows[t] = db_file.db.rows[t]
            /\ ~outcomes'[Len(outcomes')] =>
                  IF FirstTables[Len(outcomes')] = "land_data_map_prop"
                  THEN \A t \in TableSet(LandDataTables) : db_file'.db.rows[t] = {}
                  ELSE StoppedAtFailingInsert(db_file'.db,
                           StatementsOf(Populators[Len(outcomes')]),
                           TableSet(PopulatorTables(Populators[Len(outcomes')])))]_vars

\* the third populator fails on its third INSERT: its first two rows and the
\* rows of the two populators before it are in the database, the run is over
\* and the tables of the later populators were not created
C30_Witness ==
    /\ export.run > 0
    /\ ~export.running
    /\ Len(outcomes) = 3
    /\ ~outcomes[3]
    /\ Cardinality(Rows("area_map_prop")) = 2
    /\ Rows("area_data") # {}
    /\ Rows("area_light") # {}
    /\ "land_data_map_prop" \notin db_file.db.tables
    /\ "map_header" \notin db_file.db.tables

====
